---- MODULE Spec2Model ----
(***************************************************************************)
(* Organizational simulation engine (backend/app/simulation/engine.py,     *)
(* real_data_initializer.py) and the checkpoint discipline of the          *)
(* simulations endpoint.                                                   *)
(*                                                                         *)
(* Fixed-point units used for the engine's floats:                         *)
(*   performance, innovation, satisfaction, avg_skill_level,               *)
(*   training_hours ............ hundredths          (75.0  -> 7500)       *)
(*   communication_density, diversity_index .. 1/10000  (0.6 -> 6000)      *)
(*   team_size ................. thousandths         (8     -> 8000)       *)
(*   avg_tenure ................ twelfths of a year  (3.0   -> 36)         *)
(*   turnover_rate parameter ... hundredths          (0.05  -> 5)          *)
(*   means and turnover ........ exact rationals [num, den]                *)
(***************************************************************************)
EXTENDS Integers, Sequences, FiniteSets, TLC

(***************************************************************************)
(* Bounds of the model.                                                    *)
(***************************************************************************)
MaxStep == 2
MaxLedger == 2
MaxConfig == 1
MaxInit == 2
MaxFileOps == 2
RngMod == 7

Min(a, b) == IF a < b THEN a ELSE b
Max(a, b) == IF a > b THEN a ELSE b

(***************************************************************************)
(* numpy's process-global generator.  Its state is one number; every call  *)
(* of np.random.* reads the state, returns a value that is a function of   *)
(* it and advances it.  np.random.seed(n) sets the state from n.           *)
(***************************************************************************)
RngStates == 0 .. (RngMod - 1)
rng_seed(n) == n % RngMod
rng_advance(s) == (s + 1) % RngMod
\* the state k calls after s
rng_at(s, k) == (s + k) % RngMod
\* standard normal deviate, in whole sigmas: -2 .. 2
rng_z(s) == ((7 * s + 3) % 5) - 2
\* np.random.random(): tenths, 0 .. 9  (0.0 .. 0.9)
rng_u(s) == (3 * s + 1) % 10
\* np.random.normal(mu, sigma) in the unit of mu and sigma
rng_normal(s, mu, sigma) == mu + sigma * rng_z(s)
\* np.random.randint(lo, hi), hi exclusive; the caller checks lo < hi
rng_randint(s, lo, hi) == lo + ((5 * s + 2) % (hi - lo))
\* np.random.choice([-1, 0, 1])
rng_choice(s) == ((2 * s + 1) % 3) - 1
\* np.random.uniform(0.1, 1.0), hundredths
rng_uniform_weight(s) == 10 + 9 * rng_u(s)

(***************************************************************************)
(* Parameters (simulation/parameters.py).  model_id is None, a model id    *)
(* or the path load_model resolved the id to.                              *)
(***************************************************************************)
NoModelId == [kind |-> "none", id |-> 0]
ModelIdOf(i) == [kind |-> "id", id |-> i]
ModelPathOf(i) == [kind |-> "path", id |-> i]

default_parameters ==
    [team_size |-> 8,
     hierarchy_levels |-> 3,
     communication_density |-> 6000,
     turnover_rate |-> 5,
     training_frequency |-> "quarterly",
     simulation_duration |-> 12,
     random_seed |-> 42,
     model_id |-> NoModelId,
     processed_dataset_id |-> 0,
     simulation_mode |-> "synthetic"]

(***************************************************************************)
(* Exact rationals for pandas' means and for the turnover figure.          *)
(***************************************************************************)
Rat(n, d) == [num |-> n, den |-> d]

RECURSIVE SumField(_, _, _)
SumField(td, field, i) ==
    IF i > Len(td) THEN 0 ELSE td[i][field] + SumField(td, field, i + 1)

\* team_data[field].mean()
Mean(td, field) == Rat(SumField(td, field, 1), Len(td))

(***************************************************************************)
(* Synthetic teams, initialize_organization.  A team's eleven draws are    *)
(* made in the order of the dict literal.  np.random.randint(1, h + 1)     *)
(* raises ValueError when h + 1 <= 1: the team is then not built and the   *)
(* two draws made before it stay consumed.                                 *)
(***************************************************************************)
synthetic_team(i, s, team_size, hierarchy_levels, communication_density) ==
    [team_id |-> i,
     team_size |-> Max(3000, 1000 * rng_normal(s, team_size, 2)),
     avg_tenure |-> Max(6, rng_normal(rng_at(s, 1), 36, 18)),
     hierarchy_levels |->
         Max(1, Min(hierarchy_levels, rng_randint(rng_at(s, 2), 1, hierarchy_levels + 1))),
     communication_density |->
         Min(10000, Max(2000, rng_normal(rng_at(s, 3), communication_density, 1000))),
     diversity_index |-> Min(10000, Max(0, rng_normal(rng_at(s, 4), 6000, 1500))),
     avg_skill_level |-> Min(1000, Max(100, rng_normal(rng_at(s, 5), 700, 150))),
     training_hours |-> 100 * rng_randint(rng_at(s, 6), 10, 40),
     manager_span |-> Max(2, rng_randint(rng_at(s, 7), 3, 10)),
     performance |-> Min(10000, Max(5000, rng_normal(rng_at(s, 8), 7500, 800))),
     innovation |-> Min(10000, Max(4000, rng_normal(rng_at(s, 9), 6500, 1200))),
     satisfaction |-> Min(10000, Max(4000, rng_normal(rng_at(s, 10), 7000, 1000)))]

DrawsPerTeam == 11

RECURSIVE synthetic_teams(_, _, _, _, _, _)
synthetic_teams(i, num_teams, s, team_size, hierarchy_levels, communication_density) ==
    IF i > num_teams THEN <<>>
    ELSE <<synthetic_team(i, s, team_size, hierarchy_levels, communication_density)>>
         \o synthetic_teams(i + 1, num_teams, rng_at(s, DrawsPerTeam),
                            team_size, hierarchy_levels, communication_density)

\* max(5, int(hierarchy_levels * 3))
num_teams_of(hierarchy_levels) == Max(5, hierarchy_levels * 3)

(***************************************************************************)
(* The organization graph: a node per team with the attributes given to    *)
(* G.add_node (an attribute the call does not set is -1), and weighted     *)
(* edges.  Pairs i < j are visited row by row; each costs one random()     *)
(* and, when connected, one uniform(0.1, 1.0).                             *)
(***************************************************************************)
EmptyGraph == [nodes |-> {}, edges |-> {}]

synthetic_nodes(td) ==
    {[team_id |-> td[i].team_id, size |-> td[i].team_size,
      performance |-> td[i].performance,
      communication_density |-> -1, diversity |-> -1] : i \in 1 .. Len(td)}

RECURSIVE random_edges(_, _, _, _, _)
\* returns [edges, rng]
random_edges(td, i, j, s, acc) ==
    IF i >= Len(td) THEN [edges |-> acc, rng |-> s]
    ELSE IF j > Len(td) THEN random_edges(td, i + 1, i + 2, s, acc)
    ELSE IF rng_u(s) * 2000 < td[i].communication_density + td[j].communication_density
         THEN random_edges(td, i, j + 1, rng_advance(rng_advance(s)),
                  acc \cup {[a |-> td[i].team_id, b |-> td[j].team_id,
                             weight |-> rng_uniform_weight(rng_advance(s))]})
         ELSE random_edges(td, i, j + 1, rng_advance(s), acc)

(***************************************************************************)
(* Interventions.  A ledger entry is the dict the caller passed:           *)
(* type, month, intensity, target_teams.  intensity_ok = FALSE stands for  *)
(* an entry whose "intensity" is not a number (JSON null, a string):       *)
(* intensity / 100 then raises TypeError.                                  *)
(***************************************************************************)
Intervention(type, month, intensity, target_teams) ==
    [type |-> type, month |-> month, intensity |-> intensity,
     intensity_ok |-> TRUE, target_teams |-> target_teams]

\* the lambdas of _apply_intervention, by intervention type and attribute;
\* k is the intensity (1..100), u a np.random.random() value in tenths
update_function(type, attribute, x, k, u) ==
    CASE type = "communication" /\ attribute = "communication_density" ->
             Min(10000, x + k * 20)
      [] type = "communication" /\ attribute = "satisfaction" ->
             Min(10000, x + k * 3)
      [] type = "training" /\ attribute = "avg_skill_level" ->
             Min(1000, x + k * 1)
      [] type = "training" /\ attribute = "training_hours" -> x + k * 10
      [] type = "training" /\ attribute = "performance" ->
             Min(10000, x + k * 5)
      [] type = "reorganization" /\ attribute = "team_size" ->
             Max(3000, x + (u - 3) * k * 5)
      [] type = "reorganization" /\ attribute = "satisfaction" ->
             Max(4000, x - k * 10)
      [] type = "reorganization" /\ attribute = "innovation" ->
             Min(10000, x + k * 10)
      [] type = "reorganization" /\ attribute = "communication_density" ->
             Min(10000, Max(2000, x + (u - 3) * k * 4))
      [] type = "leadership" /\ attribute = "satisfaction" ->
             Min(10000, x + k * 8)
      [] type = "leadership" /\ attribute = "performance" ->
             Min(10000, x + k * 4)
      [] type = "leadership" /\ attribute = "communication_density" ->
             Min(10000, x + k * 10)

\* the lambdas that call np.random.random()
uses_random(type, attribute) ==
    type = "reorganization" /\ attribute \in {"team_size", "communication_density"}

\* Series.apply(update_function) over the rows whose index is in rows,
\* in row order; returns [td, rng]
RECURSIVE apply_rows(_, _, _, _, _, _, _)
apply_rows(td, rows, i, attribute, type, k, s) ==
    IF i > Len(td) THEN [td |-> td, rng |-> s]
    ELSE IF i \in rows
         THEN apply_rows(
                  [td EXCEPT ![i][attribute] =
                                 update_function(type, attribute, @, k, rng_u(s))],
                  rows, i + 1, attribute, type, k,
                  IF uses_random(type, attribute) THEN rng_advance(s) ELSE s)
         ELSE apply_rows(td, rows, i + 1, attribute, type, k, s)

\* team_data['team_id'].isin(target_teams): the rows whose id is listed
mask(td, target_teams) ==
    {i \in 1 .. Len(td) :
        \E j \in 1 .. Len(target_teams) : target_teams[j] = td[i].team_id}

\* the function applied to every row, whatever target_teams lists
apply_to_every_team(td, target_teams, attribute, type, k, s) ==
    apply_rows(td, 1 .. Len(td), 1, attribute, type, k, s)

\* _apply_to_teams: an empty list is falsy and selects every row
apply_to_teams(td, target_teams, attribute, type, k, s) ==
    IF target_teams = <<>>
    THEN apply_rows(td, 1 .. Len(td), 1, attribute, type, k, s)
    ELSE apply_rows(td, mask(td, target_teams), 1, attribute, type, k, s)

\* the (attribute, lambda) calls _apply_intervention makes for a type, in order
intervention_calls(type) ==
    CASE type = "communication" ->
             <<"communication_density", "satisfaction">>
      [] type = "training" ->
             <<"avg_skill_level", "training_hours", "performance">>
      [] type = "reorganization" ->
             <<"team_size", "satisfaction", "innovation", "communication_density">>
      [] type = "leadership" ->
             <<"satisfaction", "performance", "communication_density">>
      [] OTHER -> <<>>

RECURSIVE apply_calls(_, _, _, _, _)
apply_calls(td, iv, calls, c, s) ==
    IF c > Len(calls) THEN [td |-> td, rng |-> s]
    ELSE LET r == apply_to_teams(td, iv.target_teams, calls[c],
                                 iv.type, iv.intensity, s)
         IN apply_calls(r.td, iv, calls, c + 1, r.rng)

\* _apply_intervention; returns [ok, td, rng]
apply_intervention(td, iv, s) ==
    IF ~iv.intensity_ok
    THEN [ok |-> FALSE, td |-> td, rng |-> s]
    ELSE LET r == apply_calls(td, iv, intervention_calls(iv.type), 1, s)
         IN [ok |-> TRUE, td |-> r.td, rng |-> r.rng]

(***************************************************************************)
(* The predictor (ml/predictor.py) is a trained model kept in a file of    *)
(* the model store.  The engine reads its feature_names and calls          *)
(* evaluate_team_structure, which returns one prediction per row.          *)
(***************************************************************************)
NoModel == 0
ModelIds == {1}
team_columns ==
    {"team_id", "team_name", "team_size", "avg_tenure", "hierarchy_levels",
     "communication_density", "diversity_index", "avg_skill_level",
     "training_hours", "manager_span", "performance", "innovation",
     "satisfaction"}

\* the predictors a model file can hold, by what their evaluation does:
\* 1 returns one prediction per row; 2 raises; 3 declares features the
\* roster lacks; 4 returns one prediction less than there are rows, 5 one
\* more; 6 returns a list whose second entry is not a number
Predictors == 1 .. 6

\* feature_names of the model stored under an id
feature_names(m) ==
    IF m = 3
    THEN <<"team_size", "tenure_months", "degree_centrality", "clustering">>
    ELSE <<"team_size", "avg_skill_level", "communication_density", "tenure_months">>

\* the prediction of the model for one row, hundredths
predict(m, team) == 3000 + 6 * team.avg_skill_level

\* stands for an entry of the predictions that is not a number (predictions
\* are positive)
NotANumber == -1

\* the length of the predictions for a frame of n rows
predictions_length(m, n) ==
    IF m = 4 THEN n - 1 ELSE IF m = 5 THEN n + 1 ELSE n

\* evaluate_team_structure(team_data): [ok, predictions]; ok is FALSE when
\* the call raises
evaluate_team_structure(m, td) ==
    [ok |-> m # 2,
     predictions |->
        [i \in 1 .. predictions_length(m, Len(td)) |->
            IF m = 6 /\ i = 2 THEN NotANumber
            ELSE predict(m, td[IF i <= Len(td) THEN i ELSE Len(td)])]]

(***************************************************************************)
(* _simulate_team_dynamics: the natural fluctuations of one team, then     *)
(* the blending with the model's predictions.                              *)
(***************************************************************************)
\* the fluctuations of one team without the clamps
unclamped_team_dynamics(team, s, has_interventions) ==
    [team |-> [team EXCEPT
                 !.performance = @ + rng_normal(s, 0, 200),
                 !.innovation = @ + rng_normal(rng_at(s, 1), 0, 300),
                 !.satisfaction = @ + rng_normal(rng_at(s, 2), 0, 200),
                 !.avg_tenure = @ + 1],
     rng |-> rng_at(s, 5)]

\* returns [team, rng]
team_dynamics(team, s, has_interventions) ==
    LET s_comm == rng_at(s, 3)
        s_size == IF has_interventions THEN s_comm ELSE rng_advance(s_comm)
        change == rng_u(s_size) < 1
        s_choice == rng_advance(s_size)
        t1 == [team EXCEPT
                 !.performance = Min(10000, Max(4000, @ + rng_normal(s, 0, 200))),
                 !.innovation =
                     Min(10000, Max(3000, @ + rng_normal(rng_at(s, 1), 0, 300))),
                 !.satisfaction =
                     Min(10000, Max(3000, @ + rng_normal(rng_at(s, 2), 0, 200))),
                 !.communication_density =
                     IF has_interventions THEN @
                     ELSE Min(10000, Max(1000, @ + rng_normal(s_comm, 0, 200))),
                 !.team_size =
                     IF change THEN Max(3000, @ + 1000 * rng_choice(s_choice))
                     ELSE @,
                 !.avg_tenure = @ + 1]
    IN [team |-> t1,
        rng |-> IF change THEN rng_advance(s_choice) ELSE s_choice]

RECURSIVE natural_dynamics(_, _, _, _)
\* returns [td, rng]
natural_dynamics(td, i, s, has_interventions) ==
    IF i > Len(td) THEN [td |-> td, rng |-> s]
    ELSE LET r == team_dynamics(td[i], s, has_interventions)
         IN natural_dynamics([td EXCEPT ![i] = r.team], i + 1, r.rng,
                             has_interventions)

\* features of the model found among the columns of team_data
available_features(m, cols) ==
    {j \in 1 .. Len(feature_names(m)) : feature_names(m)[j] \in cols}

\* 0.7 * predicted + 0.3 * current + N(0, 2), clamped; rounded to the unit
blended_performance(predicted, current, s) ==
    Min(10000, Max(4000, ((7 * predicted + 3 * current) \div 10)
                         + rng_normal(s, 0, 200)))

RECURSIVE blend(_, _, _, _)
\* returns [td, rng]; the loop stops where an entry of the predictions
\* makes the arithmetic raise, the rows before it staying blended
blend(td, predictions, i, s) ==
    IF i > Len(predictions) THEN [td |-> td, rng |-> s]
    ELSE IF i > Len(td) THEN blend(td, predictions, i + 1, s)
    ELSE IF predictions[i] = NotANumber THEN [td |-> td, rng |-> s]
    ELSE blend([td EXCEPT ![i].performance =
                    blended_performance(predictions[i], @, s)],
               predictions, i + 1, rng_advance(s))

\* the columns of zeros added for the features the roster lacks
with_missing_features(model, extra) ==
    extra \cup ({feature_names(model)[j] : j \in 1 .. Len(feature_names(model))}
                \ (team_columns \cup extra))

\* the predictor is called on d, the roster after the natural dynamics
blend_evaluated(d, extra, evaluation) ==
    IF ~evaluation.ok THEN [td |-> d.td, extra |-> extra, rng |-> d.rng]
    ELSE [td |-> blend(d.td, evaluation.predictions, 1, d.rng).td,
          extra |-> extra,
          rng |-> blend(d.td, evaluation.predictions, 1, d.rng).rng]

\* blending every row with the model's own prediction, whatever the
\* evaluation did
blend_regardless(d, extra, model) ==
    blend_evaluated(d, extra,
                    [ok |-> TRUE,
                     predictions |-> [i \in 1 .. Len(d.td) |-> predict(model, d.td[i])]])

blend_with_model(d, extra, model) ==
    IF model # NoModel /\ Len(feature_names(model)) > 0
       /\ 10 * Cardinality(available_features(model, team_columns \cup extra))
             >= 7 * Len(feature_names(model))
    THEN blend_evaluated(d, with_missing_features(model, extra),
                         evaluate_team_structure(model, d.td))
    ELSE [td |-> d.td, extra |-> extra, rng |-> d.rng]

\* returns [td, extra, rng]; extra are the columns of zeros added for the
\* model's missing features
simulate_team_dynamics(td, extra, model, s, has_interventions) ==
    blend_with_model(natural_dynamics(td, 1, s, has_interventions), extra, model)

(***************************************************************************)
(* _calculate_turnover: (turnover_rate / 12) * (1.5 - mean satisfaction    *)
(* / 100), as an exact rational.  turnover_rate is in hundredths and the   *)
(* mean satisfaction is num / den hundredths of a point.                   *)
(***************************************************************************)
\* the factor taken as 1 - mean satisfaction / 100
turnover_without_floor(parameters, td) ==
    LET avg_satisfaction == Mean(td, "satisfaction")
    IN Rat(parameters.turnover_rate
             * (10000 * avg_satisfaction.den - avg_satisfaction.num),
           12000000 * avg_satisfaction.den)

calculate_turnover(parameters, td) ==
    LET avg_satisfaction == Mean(td, "satisfaction")
    IN Rat(parameters.turnover_rate
             * (15000 * avg_satisfaction.den - avg_satisfaction.num),
           12000000 * avg_satisfaction.den)

(***************************************************************************)
(* The engine object (OrganizationalSimulationEngine.__init__).            *)
(* team_data is the DataFrame's rows; extra_cols are the columns of zeros  *)
(* blending added to it.  model is NoModel or the id of the model whose    *)
(* predictor object is attached.                                           *)
(***************************************************************************)
NoDict == [k \in {} |-> 0]

\* org_data; a key the strategy does not write is 0, an empty dict or an
\* empty list.  The time stamps (simulation_start, saved_at) are left out.
EmptyOrg ==
    [name |-> "", total_employees |-> 0, num_teams |-> 0, hierarchy_levels |-> 0,
     dataset_id |-> 0, derived_parameters |-> NoDict, warnings |-> <<>>]

NewEngine ==
    [parameters |-> default_parameters,
     current_step |-> 0,
     org_data |-> EmptyOrg,
     team_data |-> <<>>,
     extra_cols |-> {},
     results |-> <<>>,
     interventions |-> <<>>,
     organization_graph |-> EmptyGraph,
     model |-> NoModel]

(***************************************************************************)
(* run_simulation(steps, new_interventions).                               *)
(***************************************************************************)
\* indices of the ledger entries whose month is the step, in ledger order
RECURSIVE step_interventions(_, _, _)
step_interventions(ledger, month, i) ==
    IF i > Len(ledger) THEN <<>>
    ELSE (IF ledger[i].month = month THEN <<i>> ELSE <<>>)
         \o step_interventions(ledger, month, i + 1)

RECURSIVE apply_step_interventions(_, _, _, _, _, _)
RECURSIVE applied_one(_, _, _, _, _, _, _)
\* returns [ok, td, rng, applied]: applied are the ledger indices whose
\* intervention was applied before one raised
apply_step_interventions(td, ledger, idx, j, s, applied) ==
    IF j > Len(idx) THEN [ok |-> TRUE, td |-> td, rng |-> s, applied |-> applied]
    ELSE applied_one(td, ledger, idx, j, s, applied,
                     apply_intervention(td, ledger[idx[j]], s))

\* the loop goes on with the result r of _apply_intervention
applied_one(td, ledger, idx, j, s, applied, r) ==
    IF ~r.ok
    THEN [ok |-> FALSE, td |-> td, rng |-> s, applied |-> applied]
    ELSE apply_step_interventions(r.td, ledger, idx, j + 1, r.rng,
                                  Append(applied, idx[j]))

month_result(eng, n_interventions) ==
    [month |-> eng.current_step,
     turnover |-> calculate_turnover(eng.parameters, eng.team_data),
     performance |-> Mean(eng.team_data, "performance"),
     innovation |-> Mean(eng.team_data, "innovation"),
     satisfaction |-> Mean(eng.team_data, "satisfaction"),
     communication_density |-> Mean(eng.team_data, "communication_density"),
     avg_team_size |-> Mean(eng.team_data, "team_size"),
     interventions |-> n_interventions]

\* One pass of the loop body; returns [ok, eng, rng, applied].  When an
\* intervention raises, the step counter has been advanced, the roster holds
\* the interventions applied before it, and no record is appended.
\* e3 is the engine after the natural dynamics d: the record is appended
step_record(e3, idx, a, d) ==
    [ok |-> TRUE,
     eng |-> [e3 EXCEPT !.results = Append(@, month_result(e3, Len(idx)))],
     rng |-> d.rng, applied |-> a.applied]

\* a is the outcome of the step's interventions on e1
step_dynamics(e1, idx, a, d) ==
    IF ~a.ok
    THEN [ok |-> FALSE, eng |-> [e1 EXCEPT !.team_data = a.td],
          rng |-> a.rng, applied |-> a.applied]
    ELSE step_record([e1 EXCEPT !.team_data = d.td, !.extra_cols = d.extra],
                     idx, a, d)

\* the dynamics run as on a step without interventions
step_applied_drifting(e1, idx, a) ==
    step_dynamics(e1, idx, a,
                  simulate_team_dynamics(a.td, e1.extra_cols, e1.model, a.rng, FALSE))

step_applied(e1, idx, a) ==
    step_dynamics(e1, idx, a,
                  simulate_team_dynamics(a.td, e1.extra_cols, e1.model, a.rng,
                                         Len(idx) > 0))

\* idx are the ledger entries of the step e1 has advanced to
step_selected(e1, idx, s) ==
    step_applied(e1, idx,
                 apply_step_interventions(e1.team_data, e1.interventions,
                                          idx, 1, s, <<>>))

step_advanced(e1, s) ==
    step_selected(e1, step_interventions(e1.interventions, e1.current_step, 1), s)

one_step(eng, s) == step_advanced([eng EXCEPT !.current_step = @ + 1], s)

\* the batch's outcome acc with the outcome r of one more pass
batch_with(acc, r) ==
    [ok |-> r.ok, eng |-> r.eng, rng |-> r.rng, fired |-> acc.fired \o r.applied]

RECURSIVE run_steps(_, _, _, _)
RECURSIVE run_on(_, _, _)
\* returns [ok, eng, rng, fired]: fired are the ledger indices applied over
\* the batch (one entry per application)
run_steps(eng, steps, s, acc) ==
    IF steps <= 0 THEN acc ELSE run_on(steps, acc, one_step(eng, s))

\* the loop goes on after a pass with outcome r
run_on(steps, acc, r) ==
    IF ~r.ok THEN batch_with(acc, r)
    ELSE run_steps(r.eng, steps - 1, r.rng, batch_with(acc, r))

\* the new interventions put in front of the ledger
scheduled_in_front(eng, new_interventions) ==
    [eng EXCEPT !.interventions = new_interventions \o @]

\* the engine with the new interventions in its ledger
scheduled(eng, new_interventions) ==
    [eng EXCEPT !.interventions = @ \o new_interventions]

\* the counter advanced once per call, not once per step
run_simulation_advancing_once(eng, steps, new_interventions, s) ==
    IF Len(eng.team_data) = 0
    THEN [ok |-> FALSE, eng |-> eng, rng |-> s, fired |-> <<>>]
    ELSE [run_steps(scheduled(eng, new_interventions), steps, s,
                    [ok |-> TRUE, eng |-> scheduled(eng, new_interventions),
                     rng |-> s, fired |-> <<>>])
             EXCEPT !.eng.current_step = eng.current_step + Min(steps, 1)]

\* the ledger extended before the roster is looked at
run_simulation_scheduling_first(eng, steps, new_interventions, s) ==
    IF Len(eng.team_data) = 0
    THEN [ok |-> FALSE, eng |-> scheduled(eng, new_interventions), rng |-> s,
          fired |-> <<>>]
    ELSE run_steps(scheduled(eng, new_interventions), steps, s,
                   [ok |-> TRUE, eng |-> scheduled(eng, new_interventions),
                    rng |-> s, fired |-> <<>>])

\* returns [ok, eng, rng, fired]
run_simulation(eng, steps, new_interventions, s) ==
    IF Len(eng.team_data) = 0
    THEN [ok |-> FALSE, eng |-> eng, rng |-> s, fired |-> <<>>]
    ELSE run_steps(scheduled(eng, new_interventions), steps, s,
                   [ok |-> TRUE, eng |-> scheduled(eng, new_interventions),
                    rng |-> s, fired |-> <<>>])

(***************************************************************************)
(* load_model(model_id): resolve the reference against the model store     *)
(* (the ids whose model file exists) and attach the predictor.  A path is  *)
(* used directly when its file exists; an id is searched for in the        *)
(* store.  On success parameters["model_id"] becomes the path; on any      *)
(* failure the engine is left with no model.                               *)
(***************************************************************************)
\* attaching the referenced model without looking for its file
load_model_unchecked(eng, model_id, store) ==
    [eng EXCEPT !.model = model_id.id,
                !.parameters.model_id = ModelPathOf(model_id.id)]

load_model(eng, model_id, store) ==
    IF model_id.id \in store
    THEN [eng EXCEPT !.model = model_id.id,
                     !.parameters.model_id = ModelPathOf(model_id.id)]
    ELSE [eng EXCEPT !.model = NoModel]

(***************************************************************************)
(* set_parameters(parameters): only the keys the engine already holds are  *)
(* updated, with the value as given; the process-global generator is       *)
(* re-seeded; the model is loaded when model_id is set.                    *)
(* Returns [eng, rng].                                                     *)
(***************************************************************************)
set_parameters(eng, input, store) ==
    LET p == [k \in DOMAIN eng.parameters |->
                 IF k \in DOMAIN input THEN input[k] ELSE eng.parameters[k]]
        e1 == [eng EXCEPT !.parameters = p]
    IN [eng |-> IF p.model_id.kind # "none"
                THEN load_model(e1, p.model_id, store) ELSE e1,
        rng |-> rng_seed(p.random_seed)]

(***************************************************************************)
(* validate_parameters (real_data_initializer.py): numeric parameters are  *)
(* clamped to PARAMETER_RANGES with a warning each; an invalid             *)
(* training_frequency gets a warning and is kept.                          *)
(***************************************************************************)
PARAMETER_RANGES ==
    <<[name |-> "team_size", min |-> 3, max |-> 50],
      [name |-> "hierarchy_levels", min |-> 1, max |-> 10],
      [name |-> "communication_density", min |-> 1000, max |-> 10000],
      [name |-> "turnover_rate", min |-> 1, max |-> 50],
      [name |-> "simulation_duration", min |-> 1, max |-> 60],
      [name |-> "diversity_index", min |-> 0, max |-> 10000],
      [name |-> "skill_level", min |-> 1, max |-> 10],
      [name |-> "training_hours", min |-> 0, max |-> 100],
      [name |-> "performance", min |-> 0, max |-> 10000],
      [name |-> "innovation", min |-> 0, max |-> 10000],
      [name |-> "satisfaction", min |-> 0, max |-> 10000]>>

training_frequencies == {"monthly", "quarterly", "biannual", "annual"}

Warning(kind, param) == [kind |-> kind, param |-> param]

RECURSIVE validate_numeric(_, _, _)
\* returns [validated, warnings]
validate_numeric(validated, warnings, i) ==
    IF i > Len(PARAMETER_RANGES) THEN [validated |-> validated, warnings |-> warnings]
    ELSE LET r == PARAMETER_RANGES[i]
         IN IF r.name \notin DOMAIN validated
            THEN validate_numeric(validated, warnings, i + 1)
            ELSE IF validated[r.name] < r.min
            THEN validate_numeric([validated EXCEPT ![r.name] = r.min],
                                  Append(warnings, Warning("below_minimum", r.name)),
                                  i + 1)
            ELSE IF validated[r.name] > r.max
            THEN validate_numeric([validated EXCEPT ![r.name] = r.max],
                                  Append(warnings, Warning("above_maximum", r.name)),
                                  i + 1)
            ELSE validate_numeric(validated, warnings, i + 1)

validate_parameters(parameters) ==
    LET n == validate_numeric(parameters, <<>>, 1)
    IN [validated |-> n.validated,
        warnings |->
            IF "training_frequency" \in DOMAIN parameters
               /\ parameters.training_frequency \notin training_frequencies
            THEN Append(n.warnings, Warning("invalid_value", "training_frequency"))
            ELSE n.warnings]

(***************************************************************************)
(* Datasets (the Dataset table and the CSV files it points to).  A row     *)
(* holds team, tenure_months, level, skill_score, performance_score,       *)
(* innovation_score, satisfaction_score, role, manager_id, employee_id     *)
(* and degree_centrality; columns names the columns the file really has    *)
(* (a field of a column the file lacks is not read).  manager_id 0 is a    *)
(* missing cell; no other cell is missing.                                 *)
(***************************************************************************)
Row(team, tenure, level, perf, sat, manager, employee) ==
    [team |-> team, tenure_months |-> tenure, level |-> level, skill_score |-> 5,
     performance_score |-> perf, innovation_score |-> 60,
     satisfaction_score |-> sat, role |-> "engineer",
     manager_id |-> manager, employee_id |-> employee, degree_centrality |-> 4]

\* dataset 1: a team column; team 10 has one row with low scores
\* dataset 2: no team column
\* dataset 3: the record exists, its file does not
\* dataset 4: no team column; the second row names the first as its manager
Datasets ==
    [d \in {1, 2, 3, 4} |->
        CASE d = 1 ->
                 [name |-> "survey", file_exists |-> TRUE,
                  columns |-> {"team_id", "tenure_months", "level",
                               "performance_score", "satisfaction_score"},
                  rows |-> <<Row(10, 6, 1, 20, 10, 0, 1),
                             Row(20, 24, 1, 90, 80, 0, 2),
                             Row(20, 36, 2, 100, 90, 0, 3)>>]
          [] d = 2 ->
                 [name |-> "flat", file_exists |-> TRUE,
                  columns |-> {"tenure_months", "performance_score"},
                  rows |-> <<Row(0, 6, 1, 70, 70, 0, 1),
                             Row(0, 30, 1, 80, 70, 0, 2)>>]
          [] d = 3 ->
                 [name |-> "gone", file_exists |-> FALSE,
                  columns |-> {}, rows |-> <<>>]
          [] d = 4 ->
                 [name |-> "reports", file_exists |-> TRUE,
                  columns |-> {"manager_id", "employee_id", "performance_score"},
                  rows |-> <<Row(0, 6, 1, 70, 70, 0, 1),
                             Row(0, 30, 1, 80, 70, 1, 2)>>]]

RECURSIVE SortedSeq(_)
SortedSeq(S) ==
    IF S = {} THEN <<>>
    ELSE LET m == CHOOSE x \in S : \A y \in S : x <= y
         IN <<m>> \o SortedSeq(S \ {m})

RECURSIVE SumOver(_, _, _)
\* sum of a column over the rows whose index is in idx
SumOver(rows, idx, col) ==
    IF idx = {} THEN 0
    ELSE LET i == CHOOSE x \in idx : TRUE
         IN rows[i][col] + SumOver(rows, idx \ {i}, col)

\* group[col].mean() times scale, when the file has the column
ColumnMean(ds, idx, col, scale, default) ==
    IF col \in ds.columns
    THEN (scale * SumOver(ds.rows, idx, col)) \div Cardinality(idx)
    ELSE default

has_team_column(ds) == "team_id" \in ds.columns \/ "team" \in ds.columns

network_columns(ds) ==
    {c \in ds.columns : c \in {"degree_centrality"}}

\* Simpson's diversity index over the role column, 1/10000
RECURSIVE SumSquares(_, _, _)
SumSquares(rows, idx, roles) ==
    IF roles = {} THEN 0
    ELSE LET r == CHOOSE x \in roles : TRUE
             c == Cardinality({i \in idx : rows[i].role = r})
         IN c * c + SumSquares(rows, idx, roles \ {r})

simpson_diversity(ds, idx) ==
    LET n == Cardinality(idx)
    IN 10000 - (10000 * SumSquares(ds.rows, idx, {ds.rows[i].role : i \in idx}))
               \div (n * n)

\* the team dict built for one group of rows (lines 210-246)
dataset_team(ds, team_id) ==
    LET idx == {i \in 1 .. Len(ds.rows) : ds.rows[i].team = team_id}
    IN [team_id |-> team_id,
        team_size |-> 1000 * Cardinality(idx),
        avg_tenure |-> 12 * ColumnMean(ds, idx, "tenure_months", 1, 0),
        hierarchy_levels |->
            IF "level" \in ds.columns
            THEN Cardinality({ds.rows[i].level : i \in idx}) ELSE 1,
        communication_density |->
            IF network_columns(ds) # {}
            THEN Max(1000, Min(9000, ColumnMean(ds, idx, "degree_centrality", 1000, 0)))
            ELSE 6000,
        diversity_index |->
            IF "role" \in ds.columns THEN simpson_diversity(ds, idx) ELSE 6000,
        avg_skill_level |-> ColumnMean(ds, idx, "skill_score", 100, 500),
        training_hours |-> 2000,
        manager_span |->
            IF "manager_id" \in ds.columns
            THEN Cardinality({ds.rows[i].manager_id : i \in idx} \ {0}) ELSE 5,
        performance |-> ColumnMean(ds, idx, "performance_score", 100, 7500),
        innovation |-> ColumnMean(ds, idx, "innovation_score", 100, 6500),
        satisfaction |-> ColumnMean(ds, idx, "satisfaction_score", 100, 7000)]

dataset_teams(ds) ==
    IF has_team_column(ds)
    THEN LET ids == SortedSeq({ds.rows[i].team : i \in 1 .. Len(ds.rows)})
         IN [j \in 1 .. Len(ids) |-> dataset_team(ds, ids[j])]
    ELSE <<>>

dataset_nodes(td) ==
    {[team_id |-> td[i].team_id, size |-> td[i].team_size,
      performance |-> td[i].performance,
      communication_density |-> td[i].communication_density,
      diversity |-> td[i].diversity_index] : i \in 1 .. Len(td)}

(***************************************************************************)
(* Edges from the manager -> employee links (lines 298-319).  The loop     *)
(* reads team_col, which is bound only when the file has a team column:    *)
(* without one, the first row with a manager other than itself raises.     *)
(* An edge is kept with a < b; a link adds 1.0 (100) to its weight.        *)
(***************************************************************************)
has_manager_link(ds, i) ==
    ds.rows[i].manager_id # 0 /\ ds.rows[i].manager_id # ds.rows[i].employee_id

manager_team(ds, i) ==
    LET m == {j \in 1 .. Len(ds.rows) : ds.rows[j].employee_id = ds.rows[i].manager_id}
    IN IF m = {} THEN 0
       ELSE ds.rows[CHOOSE j \in m : \A k \in m : j <= k].team

add_link(edges, x, y) ==
    LET a == Min(x, y)
        b == Max(x, y)
        old == {e \in edges : e.a = a /\ e.b = b}
    IN IF old = {} THEN edges \cup {[a |-> a, b |-> b, weight |-> 100]}
       ELSE (edges \ old) \cup {[a |-> a, b |-> b, weight |-> e.weight + 100] : e \in old}

RECURSIVE manager_edges(_, _, _)
\* returns [ok, edges]
manager_edges(ds, i, edges) ==
    IF ~({"manager_id", "employee_id"} \subseteq ds.columns) \/ i > Len(ds.rows)
    THEN [ok |-> TRUE, edges |-> edges]
    ELSE IF ~has_manager_link(ds, i) THEN manager_edges(ds, i + 1, edges)
    ELSE IF ~has_team_column(ds) THEN [ok |-> FALSE, edges |-> edges]
    ELSE IF manager_team(ds, i) # 0 /\ manager_team(ds, i) # ds.rows[i].team
         THEN manager_edges(ds, i + 1,
                            add_link(edges, ds.rows[i].team, manager_team(ds, i)))
         ELSE manager_edges(ds, i + 1, edges)

(***************************************************************************)
(* derive_parameters_from_data(df, graph): a dict of the parameters the    *)
(* data supports.  Means are in hundredths; communication_density is the   *)
(* graph's density in 1/10000; turnover_rate is in hundredths.  The        *)
(* standard deviation of the team sizes is kept by the integer             *)
(* n * sum(x^2) - sum(x)^2, which is n (n - 1) times its square.           *)
(***************************************************************************)
Entry(cond, key, value) == IF cond THEN key :> value ELSE NoDict

\* calculate_communication_density(graph), 1/10000, as a rational
calculate_communication_density(graph) ==
    LET n == Cardinality(graph.nodes)
    IN IF n <= 1 THEN Rat(0, 1)
       ELSE Rat(10000 * Cardinality(graph.edges), (n * (n - 1)) \div 2)

RatFloor(r) == r.num \div r.den

RECURSIVE SumSizes(_, _, _, _)
\* sum over the groups of (rows in the group) ^ power
SumSizes(ds, ids, j, power) ==
    IF j > Len(ids) THEN 0
    ELSE LET c == Cardinality({i \in 1 .. Len(ds.rows) : ds.rows[i].team = ids[j]})
         IN (IF power = 2 THEN c * c ELSE c) + SumSizes(ds, ids, j + 1, power)

derive_parameters_from_data(ds, graph) ==
    LET all == 1 .. Len(ds.rows)
        ids == SortedSeq({ds.rows[i].team : i \in all})
        n == Len(ids)
        teams == has_team_column(ds) /\ n > 0
        recent == Cardinality({i \in all : ds.rows[i].tenure_months < 12})
    IN Entry(teams, "team_size", (100 * SumSizes(ds, ids, 1, 1)) \div Max(1, n))
       @@ Entry(teams, "team_size_variation",
                IF n > 1 THEN n * SumSizes(ds, ids, 1, 2)
                              - SumSizes(ds, ids, 1, 1) * SumSizes(ds, ids, 1, 1)
                ELSE 0)
       @@ Entry("level" \in ds.columns, "hierarchy_levels",
                Cardinality({ds.rows[i].level : i \in all}))
       @@ Entry(Cardinality(graph.nodes) > 0, "communication_density",
                RatFloor(calculate_communication_density(graph)))
       @@ Entry("tenure_months" \in ds.columns /\ Len(ds.rows) > 0, "turnover_rate",
                (100 * recent) \div Max(1, Len(ds.rows)))
       @@ Entry("performance_score" \in ds.columns /\ Len(ds.rows) > 0, "performance",
                ColumnMean(ds, all, "performance_score", 100, 0))
       @@ Entry("skill_score" \in ds.columns /\ Len(ds.rows) > 0, "skill",
                ColumnMean(ds, all, "skill_score", 100, 0))
       @@ Entry("innovation_score" \in ds.columns /\ Len(ds.rows) > 0, "innovation",
                ColumnMean(ds, all, "innovation_score", 100, 0))

(***************************************************************************)
(* initialize_from_dataset(dataset_id, parameters).  parameters is the     *)
(* engine's own dict: with a team column the derived keys it lacks are     *)
(* written into it; without one the function goes on with a validated      *)
(* copy and the engine's dict is left alone.                               *)
(* Returns [ok, team_data, organization_graph, org_data, results,          *)
(* parameters, rng]; when it raises (ok = FALSE) the draws made so far     *)
(* stay consumed.                                                          *)
(***************************************************************************)
init_failed(parameters, s) ==
    [ok |-> FALSE, team_data |-> <<>>, organization_graph |-> EmptyGraph,
     org_data |-> EmptyOrg, results |-> <<>>, parameters |-> parameters, rng |-> s]

\* c holds what the function has computed so far; v2 is the validation of
\* the merged parameters (lines 351-389)
dataset_result(c, v2) ==
    [ok |-> TRUE,
     team_data |-> c.td,
     organization_graph |-> c.graph,
     org_data |-> [name |-> c.ds.name,
                   total_employees |-> SumField(c.td, "team_size", 1),
                   num_teams |-> Len(c.td),
                   hierarchy_levels |-> v2.validated.hierarchy_levels,
                   dataset_id |-> c.dataset_id,
                   derived_parameters |-> c.derived_params,
                   warnings |-> c.warnings \o v2.warnings],
     results |-> <<[month |-> 0,
                    turnover |-> Rat(v2.validated.turnover_rate, 1200),
                    performance |-> Mean(c.td, "performance"),
                    innovation |-> Mean(c.td, "innovation"),
                    satisfaction |-> Mean(c.td, "satisfaction"),
                    communication_density |->
                        calculate_communication_density(c.graph),
                    avg_team_size |-> Mean(c.td, "team_size"),
                    interventions |-> 0]>>,
     parameters |-> IF c.fallback THEN c.parameters ELSE c.merged,
     rng |-> c.rng]

\* the derived parameters are merged under the provided ones (lines 343-349)
dataset_merged(c, derived_params) ==
    dataset_result([c EXCEPT !.derived_params = derived_params,
                             !.merged = c.local @@ derived_params],
                   validate_parameters(c.local @@ derived_params))

dataset_graph(c) == dataset_merged(c, derive_parameters_from_data(c.ds, c.graph))

\* links are the manager edges, synth the random ones (lines 298-338)
dataset_edges(c, links, synth) ==
    IF ~links.ok THEN init_failed(c.parameters, c.rng)
    ELSE dataset_graph(
             [c EXCEPT
                 !.graph = [nodes |-> IF c.fallback THEN synthetic_nodes(c.td)
                                      ELSE dataset_nodes(c.td),
                            edges |-> IF links.edges = {} THEN synth.edges
                                      ELSE links.edges],
                 !.rng = IF links.edges = {} THEN synth.rng ELSE @,
                 !.warnings = IF links.edges = {}
                              THEN Append(@, Warning("no_network", "")) ELSE @])

dataset_roster(c) ==
    dataset_edges(c, manager_edges(c.ds, 1, {}),
                  random_edges(c.td, 1, 2, c.rng, {}))

\* without teams from the data, synthetic ones are drawn from the validated
\* parameters (lines 259-296)
dataset_fallback(c, v1) ==
    dataset_roster(
        [c EXCEPT
            !.local = v1.validated,
            !.td = synthetic_teams(1, num_teams_of(v1.validated.hierarchy_levels),
                                   c.rng, v1.validated.team_size,
                                   v1.validated.hierarchy_levels,
                                   v1.validated.communication_density),
            !.rng = rng_at(@, DrawsPerTeam
                                * num_teams_of(v1.validated.hierarchy_levels)),
            !.warnings = <<Warning("no_team_data", "")>> \o v1.warnings])

dataset_grouped(c, from_data) ==
    IF from_data = <<>>
    THEN dataset_fallback([c EXCEPT !.fallback = TRUE],
                          validate_parameters(c.parameters))
    ELSE dataset_roster([c EXCEPT !.td = from_data])

dataset_read(c) == dataset_grouped(c, dataset_teams(c.ds))

initialize_from_dataset(dataset_id, parameters, s) ==
    IF dataset_id \notin DOMAIN Datasets THEN init_failed(parameters, s)
    ELSE IF ~Datasets[dataset_id].file_exists THEN init_failed(parameters, s)
    ELSE dataset_read([ds |-> Datasets[dataset_id], dataset_id |-> dataset_id,
                       parameters |-> parameters, rng |-> s,
                       fallback |-> FALSE, local |-> parameters, td |-> <<>>,
                       warnings |-> <<>>, graph |-> EmptyGraph,
                       derived_params |-> NoDict, merged |-> parameters])

(***************************************************************************)
(* initialize_organization.  Returns [ok, eng, rng].  Any failure of the   *)
(* real-data initializer is caught and the synthetic generation runs       *)
(* instead.  The ledger and the attached model are not touched.            *)
(***************************************************************************)
synthetic_organization(eng, s) ==
    LET p == eng.parameters
        n == num_teams_of(p.hierarchy_levels)
        td == synthetic_teams(1, n, s, p.team_size, p.hierarchy_levels,
                              p.communication_density)
        s1 == rng_at(s, DrawsPerTeam * n)
        e == random_edges(td, 1, 2, s1, {})
    IN IF p.hierarchy_levels + 1 <= 1
       THEN [ok |-> FALSE, eng |-> eng, rng |-> rng_at(s, 2)]
       ELSE [ok |-> TRUE,
             eng |-> [eng EXCEPT
                 !.team_data = td,
                 !.extra_cols = {},
                 !.organization_graph = [nodes |-> synthetic_nodes(td), edges |-> e.edges],
                 !.results = <<[month |-> 0,
                                turnover |-> Rat(0, 1),
                                performance |-> Mean(td, "performance"),
                                innovation |-> Mean(td, "innovation"),
                                satisfaction |-> Mean(td, "satisfaction"),
                                communication_density |->
                                    Mean(td, "communication_density"),
                                avg_team_size |-> Mean(td, "team_size"),
                                interventions |-> 0]>>,
                 !.current_step = 0,
                 !.org_data = [name |-> "Simulated Organization",
                               total_employees |-> SumField(td, "team_size", 1),
                               num_teams |-> Len(td),
                               hierarchy_levels |-> p.hierarchy_levels,
                               dataset_id |-> 0,
                               derived_parameters |-> NoDict,
                               warnings |-> <<>>]],
             rng |-> e.rng]

\* r is what initialize_from_dataset returned, or that it raised
organization_from(eng, r) ==
    IF r.ok
    THEN [ok |-> TRUE,
          eng |-> [eng EXCEPT !.team_data = r.team_data,
                              !.extra_cols = {},
                              !.organization_graph = r.organization_graph,
                              !.org_data = r.org_data,
                              !.results = r.results,
                              !.current_step = 0,
                              !.parameters = r.parameters],
          rng |-> r.rng]
    ELSE synthetic_organization(eng, r.rng)

initialize_organization(eng, s) ==
    IF eng.parameters.simulation_mode = "real_data"
       /\ eng.parameters.processed_dataset_id # 0
    THEN organization_from(eng,
             initialize_from_dataset(eng.parameters.processed_dataset_id,
                                     eng.parameters, s))
    ELSE synthetic_organization(eng, s)

(***************************************************************************)
(* Checkpoints.  save_simulation opens the checkpoint path for writing     *)
(* (which truncates the file in place) and pickles a dict of the seven     *)
(* state components into it; the predictor object is detached for the      *)
(* dump and put back afterwards, and when the engine has none but          *)
(* model_id is set, load_model is tried again.  load_simulation unpickles  *)
(* the dict, reads each component with dict.get and a default, and tries   *)
(* load_model when model_id is set.                                        *)
(***************************************************************************)
\* the dict without its results entry
pickled_without_results(eng) ==
    [parameters |-> eng.parameters,
     current_step |-> eng.current_step,
     org_data |-> eng.org_data,
     team_data |-> [rows |-> eng.team_data, extra_cols |-> eng.extra_cols],
     interventions |-> eng.interventions,
     graph |-> eng.organization_graph]

\* the dict without its interventions entry
pickled_without_ledger(eng) ==
    [parameters |-> eng.parameters,
     current_step |-> eng.current_step,
     org_data |-> eng.org_data,
     team_data |-> [rows |-> eng.team_data, extra_cols |-> eng.extra_cols],
     results |-> eng.results,
     graph |-> eng.organization_graph]

\* the dict save_simulation pickles
pickled(eng) ==
    [parameters |-> eng.parameters,
     current_step |-> eng.current_step,
     org_data |-> eng.org_data,
     team_data |-> [rows |-> eng.team_data, extra_cols |-> eng.extra_cols],
     results |-> eng.results,
     interventions |-> eng.interventions,
     graph |-> eng.organization_graph]

NoFile == [state |-> "absent", data |-> NoDict]
PartialFile == [state |-> "partial", data |-> NoDict]
CompleteFile(data) == [state |-> "complete", data |-> data]

\* the engine after save_simulation (the finally block)
after_save(eng, store) ==
    IF eng.model = NoModel /\ eng.parameters.model_id.kind # "none"
    THEN load_model(eng, eng.parameters.model_id, store)
    ELSE eng

Get(data, key, default) == IF key \in DOMAIN data THEN data[key] ELSE default

\* returns [ok, eng]
load_simulation(file, store) ==
    IF file.state # "complete"
    THEN [ok |-> FALSE, eng |-> NewEngine]
    ELSE LET data == file.data
             team_data == Get(data, "team_data", [rows |-> <<>>, extra_cols |-> {}])
             e1 == [parameters |-> Get(data, "parameters", NewEngine.parameters),
                    current_step |-> Get(data, "current_step", 0),
                    org_data |-> Get(data, "org_data", EmptyOrg),
                    team_data |-> team_data.rows,
                    extra_cols |-> team_data.extra_cols,
                    results |-> Get(data, "results", <<>>),
                    interventions |-> Get(data, "interventions", <<>>),
                    organization_graph |-> Get(data, "graph", EmptyGraph),
                    model |-> NoModel]
         IN [ok |-> TRUE,
             eng |-> IF e1.parameters.model_id.kind # "none"
                     THEN load_model(e1, e1.parameters.model_id, store)
                     ELSE e1]


(***************************************************************************)
(* The state: the process-global generator, the engine objects, the        *)
(* checkpoint file, the model store.  The remaining variables record       *)
(* history for the properties and are never read by an operation:          *)
(*   applied[e][i]  how often ledger entry i of engine e was applied       *)
(*   sched[e][i]    the step counter when entry i was scheduled            *)
(*   file_applied, file_sched   applied and sched of the saved engine      *)
(*   last[e]        the last operation on e, whether it returned, and the  *)
(*                  number of steps it was asked for                       *)
(*   fresh          the engines that were saved to, or loaded from, the    *)
(*                  checkpoint as it is now, with the model store as it    *)
(*                  is now, and not touched since                          *)
(*   hist[e]        when recording: the operations on e since it was       *)
(*                  constructed or loaded                                  *)
(*   calls[e]       how often set_parameters, initialize_organization and  *)
(*                  save_simulation or load_simulation were called on e    *)
(*                  (bounded by MaxConfig, MaxInit and MaxFileOps)         *)
(***************************************************************************)
VARIABLES rng, engines, checkpoint, model_store,
          applied, sched, file_applied, file_sched,
          last, fresh, hist, recording, calls,
          db, requests

vars == <<rng, engines, checkpoint, model_store,
          applied, sched, file_applied, file_sched,
          last, fresh, hist, recording, calls, db, requests>>

EngineIds == {1, 2}

(***************************************************************************)
(* The Simulation record of the database (its steps and summary columns)   *)
(* and the run requests on it (api/v1/endpoints/simulations.py).  Request  *)
(* e works on engine e, the object load_simulation gives it; simulation    *)
(* is the record as the request's session read it.                         *)
(***************************************************************************)
NoSummary == [month |-> -1]

NoSimulation == [steps |-> 0, summary |-> NoSummary]

NoRequest == [state |-> "none", simulation |-> NoSimulation, steps |-> 0]

Did(op, ok, steps) == [op |-> op, ok |-> ok, steps |-> steps]

Record(e, entry) ==
    IF recording THEN [hist EXCEPT ![e] = Append(@, entry)] ELSE hist

(***************************************************************************)
(* Inputs of the operations.                                               *)
(***************************************************************************)
SmallOrg == [hierarchy_levels |-> 1, random_seed |-> 3, colour |-> 1]

ParamInputs ==
    {SmallOrg,
     [turnover_rate |-> -10, hierarchy_levels |-> 1],
     [simulation_mode |-> "real_data", processed_dataset_id |-> 1],
     [model_id |-> ModelIdOf(1), hierarchy_levels |-> 1]}

Malformed(iv) == [iv EXCEPT !.intensity_ok = FALSE]

InterventionInputs ==
    {Intervention("training", 1, 100, <<2, 99>>),
     Intervention("reorganization", 2, 50, <<1>>),
     Malformed(Intervention("communication", 1, 100, <<>>))}

Batches(S) == {<<>>} \cup {<<iv>> : iv \in S}

\* seeds: the states the generator may be in when the process starts
InitWith(rec, seeds) ==
    /\ rng \in seeds
    /\ engines = [e \in EngineIds |-> NewEngine]
    /\ checkpoint = NoFile
    /\ model_store = ModelIds
    /\ applied = [e \in EngineIds |-> <<>>]
    /\ sched = [e \in EngineIds |-> <<>>]
    /\ file_applied = <<>>
    /\ file_sched = <<>>
    /\ last = [e \in EngineIds |-> Did("new", TRUE, 0)]
    /\ fresh = {}
    /\ hist = [e \in EngineIds |-> <<>>]
    /\ recording = rec
    /\ calls = [e \in EngineIds |-> [config |-> 0, init |-> 0, file |-> 0]]
    /\ db = NoSimulation
    /\ requests = [e \in EngineIds |-> NoRequest]

Init == InitWith(FALSE, RngStates)

(***************************************************************************)
(* Operations on engine e.                                                 *)
(***************************************************************************)
SetParameters(e, input) ==
    LET r == set_parameters(engines[e], input, model_store)
    IN /\ calls[e].config < MaxConfig
       /\ calls' = [calls EXCEPT ![e].config = @ + 1]
       /\ engines' = [engines EXCEPT ![e] = r.eng]
       /\ rng' = r.rng
       /\ last' = [last EXCEPT ![e] = Did("set_parameters", TRUE, 0)]
       /\ fresh' = fresh \ {e}
       /\ hist' = Record(e, [op |-> "set_parameters", input |-> input])
       /\ UNCHANGED <<db, requests, checkpoint, model_store, applied, sched,
                      file_applied, file_sched, recording>>

\* r is what initialize_organization returned
InitializeTo(e, r) ==
    /\ calls[e].init < MaxInit
    /\ calls' = [calls EXCEPT ![e].init = @ + 1]
    /\ engines' = [engines EXCEPT ![e] = r.eng]
    /\ rng' = r.rng
    /\ last' = [last EXCEPT ![e] = Did("initialize", r.ok, 0)]
    /\ fresh' = fresh \ {e}
    /\ hist' = Record(e, [op |-> "initialize"])
    /\ UNCHANGED <<db, requests, checkpoint, model_store, applied, sched,
                   file_applied, file_sched, recording>>

Initialize(e) == InitializeTo(e, initialize_organization(engines[e], rng))

RECURSIVE Count(_, _, _)
\* how often i occurs in the sequence fired, from position j on
Count(fired, i, j) ==
    IF j > Len(fired) THEN 0
    ELSE (IF fired[j] = i THEN 1 ELSE 0) + Count(fired, i, j + 1)

\* r is what run_simulation returned for the engine eng
RunTo(e, eng, steps, new_interventions, r) ==
    /\ eng.current_step + steps <= MaxStep
    /\ Len(eng.interventions) + Len(new_interventions) <= MaxLedger
    /\ engines' = [engines EXCEPT ![e] = r.eng]
    /\ rng' = r.rng
    /\ applied' = [applied EXCEPT ![e] =
           [i \in 1 .. Len(r.eng.interventions) |->
               (IF i <= Len(eng.interventions) THEN applied[e][i] ELSE 0)
               + Count(r.fired, i, 1)]]
    /\ sched' = [sched EXCEPT ![e] =
           [i \in 1 .. Len(r.eng.interventions) |->
               IF i <= Len(eng.interventions) THEN sched[e][i]
               ELSE eng.current_step]]
    /\ last' = [last EXCEPT ![e] = Did("run", r.ok, steps)]
    /\ fresh' = fresh \ {e}
    /\ hist' = Record(e, [op |-> "run", steps |-> steps,
                          new_interventions |-> new_interventions])
    /\ UNCHANGED <<db, requests, checkpoint, model_store, file_applied, file_sched,
                   recording, calls>>

Run(e, steps, new_interventions) ==
    RunTo(e, engines[e], steps, new_interventions,
          run_simulation(engines[e], steps, new_interventions, rng))

Save(e) ==
    /\ calls[e].file < MaxFileOps
    /\ calls' = [calls EXCEPT ![e].file = @ + 1]
    /\ checkpoint' = CompleteFile(pickled(engines[e]))
    /\ engines' = [engines EXCEPT ![e] = after_save(engines[e], model_store)]
    /\ file_applied' = applied[e]
    /\ file_sched' = sched[e]
    /\ last' = [last EXCEPT ![e] = Did("save", TRUE, 0)]
    /\ fresh' = {e}
    /\ hist' = IF recording THEN [hist EXCEPT ![e] = <<[op |-> "save"]>>] ELSE hist
    /\ UNCHANGED <<db, requests, rng, model_store, applied, sched, recording>>

\* the write fails part-way (the disk is full, the process is stopped):
\* the file was truncated when it was opened and holds a prefix of the dump
SaveInterrupted(e) ==
    /\ calls[e].file < MaxFileOps
    /\ calls' = [calls EXCEPT ![e].file = @ + 1]
    /\ checkpoint' = PartialFile
    /\ engines' = [engines EXCEPT ![e] = after_save(engines[e], model_store)]
    /\ file_applied' = <<>>
    /\ file_sched' = <<>>
    /\ last' = [last EXCEPT ![e] = Did("save", FALSE, 0)]
    /\ fresh' = {}
    /\ hist' = IF recording THEN [hist EXCEPT ![e] = <<[op |-> "save"]>>] ELSE hist
    /\ UNCHANGED <<db, requests, rng, model_store, applied, sched, recording>>

\* engine e becomes the engine load_simulation returns; when it raises,
\* the caller has no engine and e is left as it was
Load(e) ==
    LET r == load_simulation(checkpoint, model_store)
    IN /\ calls[e].file < MaxFileOps
       /\ calls' = [calls EXCEPT ![e].file = @ + 1]
       /\ engines' = [engines EXCEPT ![e] = IF r.ok THEN r.eng ELSE @]
       /\ applied' = [applied EXCEPT ![e] = IF r.ok THEN file_applied ELSE @]
       /\ sched' = [sched EXCEPT ![e] = IF r.ok THEN file_sched ELSE @]
       /\ last' = [last EXCEPT ![e] = Did("load", r.ok, 0)]
       /\ fresh' = IF r.ok THEN fresh \cup {e} ELSE fresh
       /\ hist' = IF recording /\ r.ok
                  THEN [hist EXCEPT ![e] =
                           <<[op |-> "load", file |-> checkpoint,
                              store |-> model_store]>>]
                  ELSE hist
       /\ UNCHANGED <<db, requests, rng, checkpoint, model_store, file_applied, file_sched,
                      recording>>

(***************************************************************************)
(* The environment: a stored model is deleted                              *)
(* (api/v1/endpoints/models.py, delete_model).                             *)
(***************************************************************************)
ModelDeleted(m) ==
    /\ m \in model_store
    /\ model_store' = model_store \ {m}
    /\ fresh' = {}
    /\ UNCHANGED <<db, requests, rng, engines, checkpoint, applied, sched, last, hist,
                   file_applied, file_sched, recording, calls>>

Initialized(e) == Len(engines[e].team_data) > 0

(***************************************************************************)
(* The life of one engine object: configured, initialized (again), run.    *)
(***************************************************************************)
Next ==
    \/ \E input \in ParamInputs : SetParameters(1, input)
    \/ Initialize(1)
    \/ \E steps \in 0 .. MaxStep, l \in Batches(InterventionInputs) :
          Run(1, steps, l)

Spec == Init /\ [][Next]_vars

(***************************************************************************)
(* Properties of one engine's life.                                        *)
(***************************************************************************)
\* C3: for every team of the roster, from the month-0 state on and for
\* both initialization strategies, performance, innovation and satisfaction
\* are in [30, 100], communication_density and diversity_index are in
\* [0, 1], and team_size is at least 3.
C3_BoundsInvariant ==
    \A i \in 1 .. Len(engines[1].team_data) :
        LET t == engines[1].team_data[i]
        IN /\ t.performance \in 3000 .. 10000
           /\ t.innovation \in 3000 .. 10000
           /\ t.satisfaction \in 3000 .. 10000
           /\ t.communication_density \in 0 .. 10000
           /\ t.diversity_index \in 0 .. 10000
           /\ t.team_size >= 3000

\* C7: every well-formed ledger entry that was scheduled before its month
\* has been applied at most once, and exactly once as soon as the step
\* counter has reached its month.
C7_FiresExactlyOnce ==
    LET eng == engines[1]
        ledger == eng.interventions
    IN (\A i \in 1 .. Len(ledger) : ledger[i].intensity_ok) =>
          \A i \in 1 .. Len(ledger) :
              /\ applied[1][i] <= 1
              /\ (sched[1][i] < ledger[i].month
                  /\ ledger[i].month <= eng.current_step) => applied[1][i] = 1

\* interventions of every type aimed at all teams, at teams of the roster,
\* at teams partly or wholly absent from it
TargetingInputs ==
    {Intervention(type, 1, k, targets) :
        type \in {"communication", "training", "reorganization", "leadership"},
        k \in {100},
        targets \in {<<>>, <<1>>, <<2, 99>>, <<20, 10>>, <<99>>}}

Listed(iv, team) ==
    \/ iv.target_teams = <<>>
    \/ \E j \in 1 .. Len(iv.target_teams) : iv.target_teams[j] = team.team_id

Transforms(iv) ==
    {intervention_calls(iv.type)[c] : c \in 1 .. Len(intervention_calls(iv.type))}

\* C8: applied to the roster of any reachable state, an intervention
\* returns without error whether or not the listed ids are in the roster,
\* leaves every team that is not listed exactly as it was (an empty list
\* lists every team), and on a listed team changes only the fields its type
\* transforms.
C8_InterventionTargeting ==
    LET td == engines[1].team_data
    IN \A iv \in TargetingInputs :
          LET r == apply_intervention(td, iv, rng)
          IN /\ r.ok
             /\ Len(r.td) = Len(td)
             /\ \A i \in 1 .. Len(td) :
                   /\ ~Listed(iv, td[i]) => r.td[i] = td[i]
                   /\ \A f \in DOMAIN td[i] \ Transforms(iv) :
                         r.td[i][f] = td[i][f]

\* a run has applied an entry that lists a team of the roster and an id
\* that is not in it
C8_Witness ==
    /\ last[1].op = "run" /\ last[1].ok
    /\ \E i \in 1 .. Len(engines[1].interventions) :
          /\ engines[1].interventions[i].target_teams = <<2, 99>>
          /\ applied[1][i] = 1
    /\ \E i \in 1 .. Len(engines[1].team_data) :
          engines[1].team_data[i].team_id = 2

\* C9: once the engine is initialized, the results series holds exactly
\* current_step + 1 records and their months are 0, 1, ..., current_step
\* in that order.
C9_ResultsShape ==
    Initialized(1) =>
        /\ Len(engines[1].results) = engines[1].current_step + 1
        /\ \A k \in 1 .. Len(engines[1].results) :
              engines[1].results[k].month = k - 1

\* C10: the record a run appended last has
\* turnover = (turnover_rate / 12) * (1.5 - S / 100) for the configured
\* rate and the mean satisfaction S of the roster the step produced, and S
\* is within [0, 100], so that the factor is within [0.5, 1.5].
C10_TurnoverFormula ==
    (last[1].op = "run" /\ last[1].ok /\ last[1].steps > 0) =>
        LET eng == engines[1]
            rec == eng.results[Len(eng.results)]
            S == Mean(eng.team_data, "satisfaction")
        IN /\ rec.month >= 1
           /\ rec.turnover.den = 12000000 * S.den
           /\ rec.turnover.num =
                 eng.parameters.turnover_rate * (15000 * S.den - S.num)
           /\ 0 <= S.num /\ S.num <= 10000 * S.den

\* a run of at least one step under a positive and under a negative rate
C10_Witness ==
    /\ last[1].op = "run" /\ last[1].ok /\ last[1].steps > 0
    /\ engines[1].parameters.turnover_rate < 0
    /\ engines[1].model # NoModel \/ engines[1].current_step = MaxStep

(***************************************************************************)
(* Checkpoints across requests (api/v1/endpoints/simulations.py): engine 1 *)
(* is configured, initialized, run and saved; either engine is loaded from *)
(* the checkpoint and run on, while the model may be deleted.  The draws   *)
(* of one engine's run are, for the other, draws the process made before   *)
(* its next call.                                                          *)
(***************************************************************************)
CheckpointInputs == {[model_id |-> ModelIdOf(1), hierarchy_levels |-> 1]}

CheckpointInterventions == {Intervention("reorganization", 2, 50, <<1>>)}

InitCheckpoint == InitWith(TRUE, {0})

NextCheckpoint ==
    \/ \E input \in CheckpointInputs :
          hist[1] = <<>> /\ SetParameters(1, input)
    \/ ~Initialized(1) /\ Initialize(1)
    \/ \E l \in Batches(CheckpointInterventions) :
          Initialized(1) /\ Run(1, 1, l)
    \/ Initialized(2) /\ Run(2, 1, <<>>)
    \/ Initialized(1) /\ Save(1)
    \/ Initialized(1) /\ SaveInterrupted(1)
    \/ \E e \in EngineIds : Load(e)
    \/ \E m \in ModelIds : ModelDeleted(m)

SpecCheckpoint == InitCheckpoint /\ [][NextCheckpoint]_vars

(***************************************************************************)
(* Two engines of one process, configured with the same parameters and     *)
(* seed, their calls interleaved.                                          *)
(***************************************************************************)
PairInputs == {SmallOrg}

PairInterventions == {Intervention("training", 1, 100, <<2, 99>>)}

InitPair == InitWith(TRUE, RngStates)

NextPair ==
    \/ \E e \in EngineIds, input \in PairInputs :
          hist[e] = <<>> /\ SetParameters(e, input)
    \/ \E e \in EngineIds : hist[e] # <<>> /\ ~Initialized(e) /\ Initialize(e)
    \/ \E e \in EngineIds, steps \in 1 .. MaxStep,
          l \in Batches(PairInterventions) : Initialized(e) /\ Run(e, steps, l)

SpecPair == InitPair /\ [][NextPair]_vars

(***************************************************************************)
(* Properties of checkpoints.                                              *)
(***************************************************************************)
LoadedAndRun(e) ==
    /\ Len(hist[e]) >= 2
    /\ hist[e][1].op = "load"

\* C1: two engines loaded from the same checkpoint (with the same models
\* stored) and then given the same step calls have identical rosters and
\* identical results series, whatever was drawn from the generator before
\* each load and between the calls.
C1_DeterminismFromCheckpoint ==
    (LoadedAndRun(1) /\ hist[1] = hist[2]) =>
        /\ engines[1].team_data = engines[2].team_data
        /\ engines[1].results = engines[2].results

SameSimulation(x, y) ==
    /\ x.team_data = y.team_data
    /\ x.extra_cols = y.extra_cols
    /\ x.results = y.results
    /\ x.interventions = y.interventions
    /\ x.current_step = y.current_step
    /\ x.parameters = y.parameters

\* C4: an engine loaded from the checkpoint an engine was saved to has the
\* roster, the results series, the intervention ledger, the step counter
\* and the parameters of the saved engine (as save_simulation left it).
C4_CheckpointRoundTrip ==
    \A x \in fresh, y \in fresh : SameSimulation(engines[x], engines[y])

\* engine 1 was run with a ledger and saved, engine 2 was loaded from its
\* checkpoint
C4_Witness ==
    /\ fresh = {1, 2}
    /\ last[1].op = "save" /\ last[2].op = "load" /\ last[2].ok
    /\ engines[2].current_step >= 1
    /\ Len(engines[2].interventions) >= 1
    /\ engines[2].model # NoModel

\* what a run leaves to observe
Outcome(r) ==
    [ok |-> r.ok, team_data |-> r.eng.team_data, results |-> r.eng.results,
     interventions |-> r.eng.interventions, current_step |-> r.eng.current_step]

SameContinuation(x, y) ==
    \A l \in Batches(CheckpointInterventions) :
        Outcome(run_simulation(engines[x], 1, l, rng))
            = Outcome(run_simulation(engines[y], 1, l, rng))

\* C5 as stated: a step of the engine loaded from a checkpoint and the same
\* step of the engine that was saved to it, from the same state of the
\* generator, leave the same roster, results series and ledger.
C5_CheckpointTransparency ==
    \A x \in fresh, y \in fresh : SameContinuation(x, y)

\* C5, amended: the same, provided the loaded engine has the predictor of
\* the saved engine attached, or neither has one.
C5_TransparencyWithSamePredictor ==
    \A x \in fresh, y \in fresh :
        engines[x].model = engines[y].model => SameContinuation(x, y)

\* an intervention that engine 1 scheduled for a later month before it
\* saved has fired in a run of engine 2 after it was loaded
C5_Witness ==
    /\ LoadedAndRun(2)
    /\ last[2].op = "run" /\ last[2].ok
    /\ \E i \in 1 .. Len(hist[2][1].file.data.interventions) :
          /\ hist[2][1].file.data.interventions[i].month
                 > hist[2][1].file.data.current_step
          /\ applied[2][i] = 1

\* C6: once the checkpoint path holds a complete checkpoint, it holds a
\* complete, loadable checkpoint after every further operation, an
\* interrupted save included.
C6_CheckpointAtomicity ==
    [][checkpoint.state = "complete" =>
          /\ checkpoint'.state = "complete"
          /\ load_simulation(checkpoint', model_store').ok]_vars

(***************************************************************************)
(* Properties of two engines in one process.                               *)
(***************************************************************************)
RECURSIVE Replay(_, _, _, _)
\* the engine after the operations h[i], h[i + 1], ... on eng, with the
\* generator in state s and nothing else drawing from it
Replay(h, i, eng, s) ==
    IF i > Len(h) THEN eng
    ELSE IF h[i].op = "set_parameters"
         THEN LET r == set_parameters(eng, h[i].input, model_store)
              IN Replay(h, i + 1, r.eng, r.rng)
    ELSE IF h[i].op = "initialize"
         THEN LET r == initialize_organization(eng, s)
              IN Replay(h, i + 1, r.eng, r.rng)
    ELSE IF h[i].op = "run"
         THEN LET r == run_simulation(eng, h[i].steps, h[i].new_interventions, s)
              IN Replay(h, i + 1, r.eng, r.rng)
    ELSE eng

\* C2: each of two engines that were given the same parameters and seed
\* first has, after any interleaving of their calls, the roster and the
\* results series it has when the same calls are made on it alone.
C2_EngineIsolation ==
    \A e \in EngineIds :
        (hist[e] # <<>> /\ hist[e][1].op = "set_parameters") =>
            LET alone == Replay(hist[e], 1, NewEngine, 0)
            IN /\ engines[e].team_data = alone.team_data
               /\ engines[e].results = alone.results

(***************************************************************************)
(* One engine with a predictor attached: every kind of predictor is in the *)
(* model store, the engine is configured with one of them, initialized and *)
(* stepped one month at a time with well-formed interventions.             *)
(***************************************************************************)
BlendInputs == {[model_id |-> ModelIdOf(m), hierarchy_levels |-> 1] : m \in Predictors}

BlendInterventions == {Intervention("training", 1, 100, <<2, 99>>)}

InitBlend ==
    /\ rng \in RngStates
    /\ engines = [e \in EngineIds |-> NewEngine]
    /\ checkpoint = NoFile
    /\ model_store = Predictors
    /\ applied = [e \in EngineIds |-> <<>>]
    /\ sched = [e \in EngineIds |-> <<>>]
    /\ file_applied = <<>>
    /\ file_sched = <<>>
    /\ last = [e \in EngineIds |-> Did("new", TRUE, 0)]
    /\ fresh = {}
    /\ hist = [e \in EngineIds |-> <<>>]
    /\ recording = FALSE
    /\ calls = [e \in EngineIds |-> [config |-> 0, init |-> 0, file |-> 0]]
    /\ db = NoSimulation
    /\ requests = [e \in EngineIds |-> NoRequest]

NextBlend ==
    \/ \E input \in BlendInputs : SetParameters(1, input)
    \/ Initialize(1)
    \/ \E l \in Batches(BlendInterventions) : Initialized(1) /\ Run(1, 1, l)

SpecBlend == InitBlend /\ [][NextBlend]_vars

\* the roster of eng after the interventions and the natural dynamics of
\* its next step, l being scheduled with the call and the generator in s
NaturalRoster(eng, l, s) ==
    LET e1 == [scheduled(eng, l) EXCEPT !.current_step = @ + 1]
        idx == step_interventions(e1.interventions, e1.current_step, 1)
        a == apply_step_interventions(e1.team_data, e1.interventions, idx, 1,
                                      s, <<>>)
    IN natural_dynamics(a.td, 1, a.rng, Len(idx) > 0).td

\* the step from this state to the next left every performance at its
\* value after the natural dynamics
NoBlending(l) ==
    /\ Len(engines'[1].team_data) = Len(NaturalRoster(engines[1], l, rng))
    /\ \A i \in 1 .. Len(engines'[1].team_data) :
          engines'[1].team_data[i].performance
              = NaturalRoster(engines[1], l, rng)[i].performance

\* C11: a step of an engine whose predictor raises when it is called
\* (predictor 2), or declares features of which fewer than 70% are in the
\* roster (predictor 3), advances the counter by one, appends exactly one
\* record, and leaves every team's performance at its value after the
\* natural dynamics.
C11_BlendingFailureNeverAborts ==
    [][\A l \in Batches(BlendInterventions) :
          (Initialized(1) /\ engines[1].model \in {2, 3} /\ Run(1, 1, l)) =>
              /\ last'[1] = Did("run", TRUE, 1)
              /\ engines'[1].current_step = engines[1].current_step + 1
              /\ Len(engines'[1].results) = Len(engines[1].results) + 1
              /\ NoBlending(l)]_vars

C11_Witness ==
    /\ engines[1].model \in {2, 3}
    /\ last[1] = Did("run", TRUE, 1)
    /\ engines[1].current_step >= 1
    /\ Len(engines[1].results) = engines[1].current_step + 1

\* C12: a step of an engine whose predictor returns a list of another
\* length than the roster (predictors 4 and 5), or a list with an entry
\* that is not a number (predictor 6), leaves every team's performance at
\* its value after the natural dynamics.
C12_IncompatibleOutputSkipsBlending ==
    [][\A l \in Batches(BlendInterventions) :
          (Initialized(1) /\ engines[1].model \in {4, 5, 6} /\ Run(1, 1, l)) =>
              NoBlending(l)]_vars

(***************************************************************************)
(* One engine from the parameters a caller supplies to its first roster:   *)
(* values out of range, values that are not of the category, and each      *)
(* kind of dataset.                                                        *)
(***************************************************************************)
RealData(d) == [simulation_mode |-> "real_data", processed_dataset_id |-> d,
                hierarchy_levels |-> 1]

BootstrapInputs ==
    {SmallOrg,
     [hierarchy_levels |-> 0, random_seed |-> 3],
     [hierarchy_levels |-> 1, turnover_rate |-> -10],
     [hierarchy_levels |-> 1, training_frequency |-> "weekly",
      simulation_mode |-> "imported"],
     RealData(1), RealData(2), RealData(3), RealData(4),
     [simulation_mode |-> "real_data", processed_dataset_id |-> 1,
      hierarchy_levels |-> 1, training_frequency |-> "weekly"]}

NextBootstrap ==
    \/ \E input \in BootstrapInputs : SetParameters(1, input)
    \/ Initialize(1)
    \/ Initialized(1) /\ Run(1, 1, <<>>)

SpecBootstrap == Init /\ [][NextBootstrap]_vars

\* the engine was given a dict of parameters
Ingested == calls[1].config > 0

\* initialize_organization takes the data-derived strategy
FromDataset ==
    /\ engines[1].parameters.simulation_mode = "real_data"
    /\ engines[1].parameters.processed_dataset_id # 0

\* the last call on the engine was initialize_organization
JustInitialized == Ingested /\ last[1].op = "initialize"

\* C13: once a dict of parameters was ingested, team_size,
\* hierarchy_levels, communication_density, turnover_rate and
\* simulation_duration as the engine holds them are within their ranges.
C13_ParameterRangeInvariant ==
    Ingested =>
        \A i \in 1 .. 5 :
            /\ engines[1].parameters[PARAMETER_RANGES[i].name] >= PARAMETER_RANGES[i].min
            /\ engines[1].parameters[PARAMETER_RANGES[i].name] <= PARAMETER_RANGES[i].max

\* the warnings of a list that are about one parameter
WarningsAbout(warnings, param) ==
    {i \in 1 .. Len(warnings) : warnings[i].param = param}

\* C14: validating the dict the engine holds gives a training_frequency
\* and a simulation_mode of their categories, and exactly one warning for
\* each of the two that was not of its category.
C14_InvalidCategoricalRejected ==
    Ingested =>
        LET p == engines[1].parameters
            v == validate_parameters(p)
        IN /\ v.validated.training_frequency \in training_frequencies
           /\ v.validated.simulation_mode \in {"synthetic", "real_data"}
           /\ Cardinality(WarningsAbout(v.warnings, "training_frequency"))
                 = IF p.training_frequency \in training_frequencies THEN 0 ELSE 1
           /\ Cardinality(WarningsAbout(v.warnings, "simulation_mode"))
                 = IF p.simulation_mode \in {"synthetic", "real_data"} THEN 0 ELSE 1

\* C15: after a synthetic initialization, whatever parameters were
\* ingested, the call has returned and the engine holds
\* max(5, hierarchy_levels * 3) teams with pairwise distinct team_ids, step
\* counter 0 and one record, of month 0.
C15_BootstrapTotal ==
    (JustInitialized /\ ~FromDataset) =>
        /\ last[1].ok
        /\ Len(engines[1].team_data)
              = Max(5, 3 * engines[1].parameters.hierarchy_levels)
        /\ \A i, j \in 1 .. Len(engines[1].team_data) :
              i # j => engines[1].team_data[i].team_id # engines[1].team_data[j].team_id
        /\ engines[1].current_step = 0
        /\ Len(engines[1].results) = 1
        /\ engines[1].results[1].month = 0

\* the dataset the engine's parameters refer to is there, with its file
DatasetThere ==
    /\ FromDataset
    /\ engines[1].parameters.processed_dataset_id \in DOMAIN Datasets
    /\ Datasets[engines[1].parameters.processed_dataset_id].file_exists

\* C16: after an initialization from a dataset without a team column, the
\* engine holds as many teams as the synthetic initialization draws for the
\* same parameters, max(5, hierarchy_levels * 3), and the org metadata's
\* warnings hold the fallback warning.
C16_BootstrapFallback ==
    (JustInitialized /\ DatasetThere
       /\ ~has_team_column(Datasets[engines[1].parameters.processed_dataset_id])) =>
        /\ last[1].ok
        /\ Len(engines[1].team_data)
              = Max(5, 3 * engines[1].parameters.hierarchy_levels)
        /\ \E i \in 1 .. Len(engines[1].org_data.warnings) :
              engines[1].org_data.warnings[i].kind = "no_team_data"

\* C17: an initialization in real_data mode from a dataset whose file is
\* missing has raised, and has not given the engine a synthetic roster.
C17_MissingFileIsHardFailure ==
    (JustInitialized /\ FromDataset
       /\ engines[1].parameters.processed_dataset_id \in DOMAIN Datasets
       /\ ~Datasets[engines[1].parameters.processed_dataset_id].file_exists) =>
        /\ ~last[1].ok
        /\ engines[1].org_data.name # "Simulated Organization"

\* the rational r is the mean of a field over the roster
IsMean(r, td, field) == r.num * Len(td) = SumField(td, field, 1) * r.den

\* C20: after an initialization of either strategy, the month-0 record's
\* performance, innovation, satisfaction, communication_density and
\* avg_team_size are the means of the fields over the roster.
C20_MonthZeroRecord ==
    (JustInitialized /\ last[1].ok) =>
        /\ engines[1].results[1].month = 0
        /\ IsMean(engines[1].results[1].performance, engines[1].team_data, "performance")
        /\ IsMean(engines[1].results[1].innovation, engines[1].team_data, "innovation")
        /\ IsMean(engines[1].results[1].satisfaction, engines[1].team_data, "satisfaction")
        /\ IsMean(engines[1].results[1].communication_density,
                  engines[1].team_data, "communication_density")
        /\ IsMean(engines[1].results[1].avg_team_size, engines[1].team_data, "team_size")

(***************************************************************************)
(* Loading (load_simulation).                                              *)
(***************************************************************************)
CheckpointFields ==
    {"parameters", "current_step", "org_data", "team_data", "results",
     "interventions", "graph"}

\* engine e after the step is the engine the checkpoint of before the step
\* describes, but for the model and the form of the reference to it
RestoredFromCheckpoint(e) ==
    /\ checkpoint.state = "complete"
    /\ CheckpointFields \subseteq DOMAIN checkpoint.data
    /\ \A k \in DOMAIN checkpoint.data.parameters \ {"model_id"} :
          engines'[e].parameters[k] = checkpoint.data.parameters[k]
    /\ engines'[e].parameters.model_id.id = checkpoint.data.parameters.model_id.id
    /\ engines'[e].current_step = checkpoint.data.current_step
    /\ engines'[e].org_data = checkpoint.data.org_data
    /\ engines'[e].team_data = checkpoint.data.team_data.rows
    /\ engines'[e].extra_cols = checkpoint.data.team_data.extra_cols
    /\ engines'[e].results = checkpoint.data.results
    /\ engines'[e].interventions = checkpoint.data.interventions
    /\ engines'[e].organization_graph = checkpoint.data.graph

\* the checkpoint refers to a model that is not in the model store
Unresolvable ==
    /\ checkpoint.state = "complete"
    /\ checkpoint.data.parameters.model_id.kind # "none"
    /\ checkpoint.data.parameters.model_id.id \notin model_store

\* C19: save_simulation writes a dict without the predictor object, which
\* keeps the reference to it in the parameters; and a load from a
\* checkpoint whose reference does not resolve returns an engine with no
\* model attached and every other component as the checkpoint has it.
C19_PredictorReattachedByReference ==
    [][/\ Save(1) =>
             /\ "model" \notin DOMAIN checkpoint'.data
             /\ checkpoint'.data.parameters.model_id = engines[1].parameters.model_id
       /\ \A e \in EngineIds :
             (Load(e) /\ Unresolvable) =>
                 /\ last'[e] = Did("load", TRUE, 0)
                 /\ engines'[e].model = NoModel
                 /\ RestoredFromCheckpoint(e)]_vars

C19_Witness ==
    \E e \in EngineIds :
        /\ last[e] = Did("load", TRUE, 0)
        /\ e \in fresh
        /\ Unresolvable
        /\ engines[e].model = NoModel
        /\ engines[e].team_data = checkpoint.data.team_data.rows
        /\ Len(engines[e].team_data) > 0

(***************************************************************************)
(* Engine 1 writes checkpoints and engine 2 is loaded from the path, which *)
(* may also hold a checkpoint that lacks a field (one written by something *)
(* other than this save_simulation).                                       *)
(***************************************************************************)
CheckpointWithout(k) ==
    /\ checkpoint.state = "complete"
    /\ k \in DOMAIN checkpoint.data
    /\ checkpoint' = CompleteFile([f \in DOMAIN checkpoint.data \ {k} |->
                                      checkpoint.data[f]])
    /\ fresh' = {}
    /\ UNCHANGED <<db, requests, rng, engines, model_store, applied, sched, last, hist,
                   file_applied, file_sched, recording, calls>>

NextLoad ==
    \/ \E input \in CheckpointInputs : SetParameters(1, input)
    \/ ~Initialized(1) /\ Initialize(1)
    \/ \E l \in Batches(CheckpointInterventions) : Initialized(1) /\ Run(1, 1, l)
    \/ Initialized(1) /\ Save(1)
    \/ Initialized(1) /\ SaveInterrupted(1)
    \/ \E k \in CheckpointFields :
          DOMAIN checkpoint.data = CheckpointFields /\ CheckpointWithout(k)
    \/ Load(2)

SpecLoad == Init /\ [][NextLoad]_vars

\* C18: a load that returns has given the engine the parameters, step
\* counter, org metadata, roster, results, ledger and graph of the
\* checkpoint, which holds all of them.
C18_LoadAllOrNothing ==
    [][(Load(2) /\ last'[2].ok) => RestoredFromCheckpoint(2)]_vars

(***************************************************************************)
(* One engine initialized from a dataset, the calls on it being recorded:  *)
(* the caller supplies some of the parameters the dataset also supports.   *)
(***************************************************************************)
MergeInputs ==
    {RealData(1),
     [simulation_mode |-> "real_data", processed_dataset_id |-> 1,
      hierarchy_levels |-> 1, turnover_rate |-> 20],
     RealData(2)}

InitMerge == InitWith(TRUE, RngStates)

NextMerge ==
    \/ \E input \in MergeInputs : SetParameters(1, input)
    \/ Initialize(1)
    \/ Initialized(1) /\ Run(1, 1, <<>>)

SpecMerge == InitMerge /\ [][NextMerge]_vars

MergedParameters ==
    {"team_size", "hierarchy_levels", "communication_density", "turnover_rate"}

RECURSIVE Supplied(_, _, _)
\* whether the caller supplied parameter k in the calls h[1] .. h[i]
Supplied(h, k, i) ==
    IF i = 0 THEN FALSE
    ELSE IF h[i].op = "set_parameters" /\ k \in DOMAIN h[i].input THEN TRUE
    ELSE Supplied(h, k, i - 1)

RECURSIVE SuppliedValue(_, _, _)
\* the value the caller supplied last for parameter k in h[1] .. h[i]
SuppliedValue(h, k, i) ==
    IF h[i].op = "set_parameters" /\ k \in DOMAIN h[i].input THEN h[i].input[k]
    ELSE SuppliedValue(h, k, i - 1)

\* the value derived for parameter k, in the unit the engine holds k in
\* (the derived team_size is in hundredths)
DerivedAs(k, value, held) ==
    IF k = "team_size" THEN value = 100 * held ELSE value = held

\* C21: after an initialization from a dataset, each of team_size,
\* hierarchy_levels, communication_density and turnover_rate as the engine
\* holds it is the caller's value when the caller supplied one, and the
\* value derived from the dataset when it did not and the dataset gives one.
C21_DerivedParameterMerge ==
    (last[1] = Did("initialize", TRUE, 0) /\ engines[1].org_data.dataset_id # 0) =>
        \A k \in MergedParameters :
            IF Supplied(hist[1], k, Len(hist[1]))
            THEN engines[1].parameters[k] = SuppliedValue(hist[1], k, Len(hist[1]))
            ELSE k \in DOMAIN engines[1].org_data.derived_parameters =>
                    DerivedAs(k, engines[1].org_data.derived_parameters[k],
                              engines[1].parameters[k])

(***************************************************************************)
(* The leadership scenario: an engine configured with team_size 8,         *)
(* hierarchy_levels 3, communication_density 0.6, turnover_rate 0.05 and   *)
(* seed 42, initialized synthetically, then step(1) with one leadership    *)
(* intervention at month 1, intensity 100, for all teams.  The rosters are *)
(* those synthetic_teams builds from each generator state, and those in    *)
(* which the draws of performance or satisfaction are at or above 100 and  *)
(* are stored as min(100, .) = 100 (engine.py, lines 148-150).  The        *)
(* generator is in any state when the step is run.                         *)
(***************************************************************************)
LeadershipInput ==
    [team_size |-> 8, hierarchy_levels |-> 3, communication_density |-> 6000,
     turnover_rate |-> 5, random_seed |-> 42]

Leadership == Intervention("leadership", 1, 100, <<>>)

\* the roster td whose draws of the fields in capped came out at 100 or more
capped_roster(td, capped) ==
    [i \in 1 .. Len(td) |->
        [k \in DOMAIN td[i] |-> IF k \in capped THEN Min(10000, 10000 + td[i][k])
                                ELSE td[i][k]]]

\* the engine initialize_organization leaves when the roster drawn is td
organization_with(eng, td) ==
    [eng EXCEPT !.team_data = td,
                !.organization_graph.nodes = synthetic_nodes(td),
                !.results = <<[eng.results[1] EXCEPT
                                 !.performance = Mean(td, "performance"),
                                 !.satisfaction = Mean(td, "satisfaction")]>>]

scenario_engine(s, capped) ==
    LET configured == set_parameters(NewEngine, LeadershipInput, ModelIds).eng
        eng == synthetic_organization(configured, s).eng
    IN organization_with(eng, capped_roster(eng.team_data, capped))

InitLeadership ==
    /\ rng \in RngStates
    /\ \E s \in RngStates, capped \in SUBSET {"performance", "satisfaction"} :
           engines = [e \in EngineIds |->
                         IF e = 1 THEN scenario_engine(s, capped) ELSE NewEngine]
    /\ checkpoint = NoFile
    /\ model_store = ModelIds
    /\ applied = [e \in EngineIds |-> <<>>]
    /\ sched = [e \in EngineIds |-> <<>>]
    /\ file_applied = <<>>
    /\ file_sched = <<>>
    /\ last = [e \in EngineIds |-> Did(IF e = 1 THEN "initialize" ELSE "new", TRUE, 0)]
    /\ fresh = {}
    /\ hist = [e \in EngineIds |-> <<>>]
    /\ recording = FALSE
    /\ calls = [e \in EngineIds |-> [config |-> 0, init |-> 0, file |-> 0]]
    /\ db = NoSimulation
    /\ requests = [e \in EngineIds |-> NoRequest]

NextLeadership == engines[1].current_step = 0 /\ Run(1, 1, <<Leadership>>)

SpecLeadership == InitLeadership /\ [][NextLeadership]_vars

\* a > b for two means
Greater(a, b) == a.num * b.den > b.num * a.den

Clamped(team) ==
    /\ team.performance >= 4000 /\ team.performance <= 10000
    /\ team.innovation >= 3000 /\ team.innovation <= 10000
    /\ team.satisfaction >= 3000 /\ team.satisfaction <= 10000

\* C23: after every completed step every team has performance in [40, 100],
\* innovation in [30, 100] and satisfaction in [30, 100], whatever the
\* values were before the step, whatever interventions fired and whether or
\* not the blending ran.
C23_PostStepClamps ==
    \A e \in EngineIds :
        (last[e].op = "run" /\ last[e].ok /\ last[e].steps >= 1) =>
            \A i \in 1 .. Len(engines[e].team_data) : Clamped(engines[e].team_data[i])

\* a step with an intervention was completed on a roster read from a
\* dataset that gives a team values below the ranges
C23_Witness ==
    /\ last[1].op = "run" /\ last[1].ok /\ last[1].steps >= 1
    /\ engines[1].org_data.dataset_id = 1
    /\ \E i \in 1 .. Len(applied[1]) : applied[1][i] > 0
    /\ \E t \in 1 .. Len(dataset_teams(Datasets[1])) :
           ~Clamped(dataset_teams(Datasets[1])[t])

\* C24: in every reachable state every team's size is an integer >= 1, its
\* avg_skill_level is in [1, 10], its training_hours is >= 0, and its
\* hierarchy_levels and manager_span are integers >= 1.
C24_TeamRecordFields ==
    \A e \in EngineIds :
        \A i \in 1 .. Len(engines[e].team_data) :
            LET team == engines[e].team_data[i]
            IN /\ team.team_size % 1000 = 0 /\ team.team_size >= 1000
               /\ team.avg_skill_level >= 100 /\ team.avg_skill_level <= 1000
               /\ team.training_hours >= 0
               /\ team.hierarchy_levels >= 1
               /\ team.manager_span >= 1

\* the ledger entries of the next step of eng, l being scheduled with the call
FiringNext(eng, l) ==
    step_interventions(scheduled(eng, l).interventions, eng.current_step + 1, 1)

\* the roster of eng after the intervention phase of its next step
AfterInterventions(eng, l, s) ==
    apply_step_interventions(eng.team_data, scheduled(eng, l).interventions,
                             FiringNext(eng, l), 1, s, <<>>).td

\* after is before plus one draw of the noise, clamped to [0.1, 1.0]
Drifted(before, after) ==
    \E z \in -2 .. 2 : after = Min(10000, Max(1000, before + 200 * z))

\* C25: on a completed step at which at least one ledger intervention fires,
\* every team's communication_density after the step is its value after the
\* intervention phase; on a completed step with no intervention every
\* team's density is its previous value plus the noise, clamped to
\* [0.1, 1.0].
C25_DensityDriftSuppressed ==
    [][\A l \in Batches(InterventionInputs) :
          (Initialized(1) /\ Run(1, 1, l) /\ last'[1].ok) =>
              \A i \in 1 .. Len(engines'[1].team_data) :
                  IF FiringNext(engines[1], l) # <<>>
                  THEN engines'[1].team_data[i].communication_density
                         = AfterInterventions(engines[1], l, rng)[i].communication_density
                  ELSE Drifted(engines[1].team_data[i].communication_density,
                               engines'[1].team_data[i].communication_density)]_vars

\* a single step was completed at which an intervention fired
C25_Witness ==
    /\ last[1] = Did("run", TRUE, 1)
    /\ engines[1].current_step >= 1
    /\ engines[1].results[Len(engines[1].results)].interventions >= 1

\* C26: after run_simulation(steps, new_interventions) on an initialized
\* engine the ledger is the previous ledger followed by new_interventions
\* in order: no entry is removed, moved or modified, fired or not, and
\* whether or not the batch was completed.
C26_LedgerAppendOnly ==
    [][\A steps \in 0 .. MaxStep, l \in Batches(InterventionInputs) :
          (Initialized(1) /\ Run(1, steps, l)) =>
              engines'[1].interventions = engines[1].interventions \o l]_vars

\* a run appended a second entry to a ledger whose first entry has fired
\* and whose month has passed
C26_Witness ==
    /\ last[1].op = "run" /\ last[1].ok
    /\ Len(engines[1].interventions) = 2
    /\ sched[1][2] > sched[1][1]
    /\ applied[1][1] >= 1
    /\ engines[1].interventions[1].month < engines[1].current_step

\* C27: run_simulation on an engine whose roster is empty raises and
\* leaves the step counter, the results, the roster and the ledger as they
\* were: the new interventions of the call are not added to the ledger.
C27_UninitializedStepRejected ==
    [][\A steps \in 0 .. MaxStep, l \in Batches(InterventionInputs) :
          (~Initialized(1) /\ Run(1, steps, l)) =>
              /\ last'[1] = Did("run", FALSE, steps)
              /\ engines'[1].current_step = engines[1].current_step
              /\ engines'[1].results = engines[1].results
              /\ engines'[1].team_data = engines[1].team_data
              /\ engines'[1].interventions = engines[1].interventions]_vars

\* a run of one step or more was rejected on an engine that has no roster
C27_Witness ==
    /\ last[1].op = "run" /\ ~last[1].ok /\ last[1].steps >= 1
    /\ ~Initialized(1)
    /\ engines[1].current_step = 0
    /\ engines[1].interventions = <<>>

RECURSIVE Stepwise(_, _)
\* r is the outcome of a call; Stepwise(r, n) is the outcome of n calls of
\* run_simulation(1) after it, the calls ending with the first that raises
Stepwise(r, n) ==
    IF n = 0 \/ ~r.ok THEN r
    ELSE Stepwise(run_simulation(r.eng, 1, <<>>, r.rng), n - 1)

\* the engine and the generator two outcomes leave are the same
SameOutcome(r1, r2) == r1.ok = r2.ok /\ r1.eng = r2.eng /\ r1.rng = r2.rng

\* C28: on an initialized engine run_simulation(n, L) leaves the engine
\* (roster, results, ledger, step counter) and the generator as L appended
\* to the ledger followed by n calls of run_simulation(1) does, and
\* run_simulation(a + b, L) as run_simulation(a, L) followed by
\* run_simulation(b) does, the generator starting in the same state.
C28_BatchEquivalence ==
    [][\A steps \in 0 .. MaxStep, l \in Batches(InterventionInputs) :
          (Initialized(1) /\ Run(1, steps, l)) =>
              /\ SameOutcome([ok |-> last'[1].ok, eng |-> engines'[1], rng |-> rng'],
                             Stepwise(run_simulation(engines[1], 0, l, rng), steps))
              /\ \A a \in 0 .. steps :
                    LET first == run_simulation(engines[1], a, l, rng)
                    IN SameOutcome(
                           [ok |-> last'[1].ok, eng |-> engines'[1], rng |-> rng'],
                           IF first.ok
                           THEN run_simulation(first.eng, steps - a, <<>>, first.rng)
                           ELSE first)]_vars

\* a batch of two steps was completed and an intervention scheduled with
\* it fired at its second step
C28_Witness ==
    /\ last[1] = Did("run", TRUE, 2)
    /\ engines[1].current_step = 2
    /\ Len(engines[1].interventions) >= 1
    /\ engines[1].results[3].interventions >= 1

(***************************************************************************)
(* Run requests on one simulation (simulations.py, run_simulation).  A     *)
(* request reads the Simulation record, loads the checkpoint into an       *)
(* engine of its own, runs the steps, saves the checkpoint and commits     *)
(* steps and summary.  The endpoint is a plain function, which the server  *)
(* runs on a worker thread: the stages of two requests interleave.         *)
(* create_simulation has configured and initialized the engine, saved the  *)
(* checkpoint and inserted the record with steps = 0.                      *)
(***************************************************************************)
RequestSteps == {-1, 1, 2}

RequestInterventions == {Malformed(Intervention("communication", 2, 100, <<>>))}

created_simulation ==
    synthetic_organization(set_parameters(NewEngine, SmallOrg, ModelIds).eng,
                           rng_seed(SmallOrg.random_seed)).eng

InitRequests ==
    /\ rng \in RngStates
    /\ engines = [e \in EngineIds |-> NewEngine]
    /\ checkpoint = CompleteFile(pickled(created_simulation))
    /\ model_store = ModelIds
    /\ applied = [e \in EngineIds |-> <<>>]
    /\ sched = [e \in EngineIds |-> <<>>]
    /\ file_applied = <<>>
    /\ file_sched = <<>>
    /\ last = [e \in EngineIds |-> Did("new", TRUE, 0)]
    /\ fresh = {}
    /\ hist = [e \in EngineIds |-> <<>>]
    /\ recording = FALSE
    /\ calls = [e \in EngineIds |-> [config |-> 0, init |-> 0, file |-> 0]]
    /\ db = NoSimulation
    /\ requests = [e \in EngineIds |-> NoRequest]

\* the request arrives: the record is read into the request's session
Query(e, steps) ==
    /\ requests[e].state = "none"
    /\ requests' = [requests EXCEPT ![e] =
           [state |-> "open", simulation |-> db, steps |-> steps]]
    /\ UNCHANGED <<rng, engines, checkpoint, model_store, applied, sched,
                   file_applied, file_sched, last, fresh, hist, recording,
                   calls, db>>

\* the endpoint goes on whatever the outcome
request_continues_anyway(outcome) == outcome.op \in {"load", "run"}

\* the endpoint goes on after a call with this outcome
request_continues(outcome) == outcome.ok

\* simulation.steps += steps; simulation.summary = the last record; commit
Commit(e) ==
    /\ requests[e].state = "open"
    /\ last[e].op = "save"
    /\ db' = [steps |-> requests[e].simulation.steps + requests[e].steps,
              summary |-> engines[e].results[Len(engines[e].results)]]
    /\ requests' = [requests EXCEPT ![e].state = "done"]
    /\ UNCHANGED <<rng, engines, checkpoint, model_store, applied, sched,
                   file_applied, file_sched, last, fresh, hist, recording,
                   calls>>

\* load_simulation or run_simulation raised: the request answers with 500
Rejected(e) ==
    /\ requests[e].state = "open"
    /\ last[e].op \in {"load", "run"}
    /\ ~request_continues(last[e])
    /\ requests' = [requests EXCEPT ![e].state = "failed"]
    /\ UNCHANGED <<rng, engines, checkpoint, model_store, applied, sched,
                   file_applied, file_sched, last, fresh, hist, recording,
                   calls, db>>

NextRequests ==
    \/ \E e \in EngineIds, steps \in RequestSteps : Query(e, steps)
    \/ \E e \in EngineIds :
          requests[e].state = "open" /\ last[e].op = "new" /\ Load(e)
    \/ \E e \in EngineIds, l \in Batches(RequestInterventions) :
          /\ requests[e].state = "open"
          /\ last[e].op = "load" /\ request_continues(last[e])
          /\ Run(e, requests[e].steps, l)
    \/ \E e \in EngineIds :
          /\ requests[e].state = "open"
          /\ last[e].op = "run" /\ request_continues(last[e])
          /\ Save(e)
    \/ \E e \in EngineIds : Commit(e)
    \/ \E e \in EngineIds : Rejected(e)

SpecRequests == InitRequests /\ [][NextRequests]_vars

\* no request is under way and one at least was completed
Quiescent ==
    /\ \A e \in EngineIds : requests[e].state # "open"
    /\ \E e \in EngineIds : requests[e].state = "done"

\* C29: once the run requests on a simulation are completed, issued one
\* after the other or concurrently and with any step counts, the record's
\* steps is the current_step of the checkpoint, which is the number of
\* records of the checkpoint's results minus one.
C29_StepCounterConsistency ==
    Quiescent =>
        /\ db.steps = checkpoint.data.current_step
        /\ checkpoint.data.current_step = Len(checkpoint.data.results) - 1

\* C30: a request whose run_simulation raised leaves the checkpoint and the
\* record's steps and summary as they were when it raised, answers with an
\* error, and neither saves nor commits afterwards.
C30_FailedRunPersistsNothing ==
    [][\A e \in EngineIds :
          /\ (last'[e] # last[e] /\ last'[e].op = "run" /\ ~last'[e].ok) =>
                (checkpoint' = checkpoint /\ db' = db)
          /\ (requests[e].state # "none" /\ last[e].op = "run" /\ ~last[e].ok) =>
                /\ last'[e] = last[e]
                /\ engines'[e] = engines[e]
                /\ requests'[e].state \in {requests[e].state, "failed"}
                /\ (requests'[e] # requests[e]) =>
                      (checkpoint' = checkpoint /\ db' = db)]_vars

\* a request was answered with an error after its engine had completed a
\* step of the batch and raised in the next
C30_Witness ==
    /\ requests[1].state = "failed"
    /\ last[1].op = "run" /\ ~last[1].ok
    /\ Len(engines[1].results) > Len(checkpoint.data.results)
    /\ engines[1].current_step > checkpoint.data.current_step

====
